---- MODULE Spec2Model ----
(***************************************************************************)
(* Continuous-batching model runner of vllm-spyre                          *)
(* (ContinuousBatchingSpyreModelRunner and the parts of SpyreModelRunner   *)
(* it inherits): block pool, block tables, reservation ledger, shared      *)
(* cursor tkv and the per-step sequence update_states ->                   *)
(* reduce_left_padding -> _prepare_prompt | _prepare_decode -> sampling.   *)
(***************************************************************************)
EXTENDS Integers, Sequences, FiniteSets, TLC

\* ---------------------------------------------------------------- bounds
\* SpyrePlatform.get_block_size()
BlockSize == 2
\* scheduler_config.max_num_seqs
MaxNumSeqs == 3
\* model_config.max_model_len
MaxModelLen == 4
\* request ids the scheduler draws from
NumReqIds == 3
\* sampling_params.max_tokens of a request is 1 or this value
MaxNewTokens == 2
\* decode steps are scheduled only while tkv is below this cap
MaxTkv == 5
\* number of execute_model calls explored
MaxSteps == 4

ReqIds == 1..NumReqIds

\* ---------------------------------------------------------------- helpers
\* math.ceil(n / d) for an integer n and d > 0
Ceil(n, d) == -((-n) \div d)

\* dict.pop(k, None) / dict[k] = v on a dict modelled as a function
DictPop(d, k) == [x \in (DOMAIN d) \ {k} |-> d[x]]
DictPut(d, k, v) == [x \in (DOMAIN d) \cup {k} |-> IF x = k THEN v ELSE d[x]]
EmptyDict == [x \in {} |-> 0]

\* the first n elements of a deque, and the deque after n popleft() calls
\* sum(d.values()) of a dict of integers
RECURSIVE SumValues(_)
SumValues(d) ==
    IF DOMAIN d = {} THEN 0
    ELSE LET k == CHOOSE x \in DOMAIN d : TRUE
         IN  d[k] + SumValues([x \in (DOMAIN d) \ {k} |-> d[x]])

Take(s, n) == SubSeq(s, 1, n)
Drop(s, n) == SubSeq(s, n + 1, Len(s))

SeqToSet(s) == {s[i] : i \in 1..Len(s)}

RECURSIVE SetToSortedSeq(_)
SetToSortedSeq(S) ==
    IF S = {} THEN <<>>
    ELSE LET m == CHOOSE x \in S : \A y \in S : x <= y
         IN <<m>> \o SetToSortedSeq(S \ {m})

\* all orders in which the members of a set can be iterated
RECURSIVE Perms(_)
Perms(S) ==
    IF S = {} THEN {<<>>}
    ELSE UNION {{<<x>> \o p : p \in Perms(S \ {x})} : x \in S}

MinOf(S) == CHOOSE x \in S : \A y \in S : x <= y

\* the last element of a non-empty list: s[-1]
Last(s) == s[Len(s)]

\* ---------------------------------------------------------------- state
VARIABLES
    tkv,                      \* self.tkv
    n_blocks,                 \* self.n_blocks
    block_pool,               \* self.block_pool (deque, left = head)
    req_ids2blocks,           \* self.req_ids2blocks: req id -> deque of block ids
    req_ids2reserved_blocks,  \* self.req_ids2reserved_blocks: req id -> int
    requests,                 \* self.requests: insertion-ordered dict of CachedRequestState
    input_batch,              \* self.input_batch.req_id_to_index
    prefill_batch,            \* self.prefill_batch.req_id_to_index
    model_inputs,             \* the ModelForwardInputs of the step, with self.model.indices
    output,                   \* the CBSpyreModelRunnerOutput execute_model returned last
    slot_table,               \* an InputBatch driven through its interface alone
    position_ids,             \* StaticBatchingSpyreModelRunner._position_ids, last column
    sched,                    \* the scheduler_output of the step in progress
    pc,                       \* position inside execute_model
    nsteps,                   \* number of execute_model calls so far
    ids_issued,               \* scheduler: number of distinct request ids used so far
    err                       \* the exception that aborted the step, "" if none

vars == <<tkv, n_blocks, block_pool, req_ids2blocks, req_ids2reserved_blocks,
          requests, input_batch, prefill_batch, model_inputs, output, slot_table,
          position_ids, sched, pc, nsteps, ids_issued, err>>

\* self.requests is a dict in insertion order: a sequence of request states
ReqIdsOf(reqs) == {reqs[i].req_id : i \in 1..Len(reqs)}
ReqPos(reqs, id) == CHOOSE i \in 1..Len(reqs) : reqs[i].req_id = id
ReqGet(reqs, id) == reqs[ReqPos(reqs, id)]
ReqPop(reqs, id) == SelectSeq(reqs, LAMBDA r : r.req_id # id)
ReqPut(reqs, r) ==
    IF r.req_id \in ReqIdsOf(reqs)
    THEN [i \in 1..Len(reqs) |-> IF reqs[i].req_id = r.req_id THEN r ELSE reqs[i]]
    ELSE Append(reqs, r)

\* no step in progress.  tkv0 is self.tkv on entry to execute_model and
\* freed_reqs the ids update_states logged as "Freeing request id"
NoSched == [new_reqs |-> <<>>, cached |-> <<>>, tkv0 |-> 0, freed_reqs |-> {}]

\* no ModelForwardInputs in hand.  One entry per batch row: the prompt tokens of
\* a prefill are not modelled, so a prefill has no input_tokens row
NoModelInputs ==
    [is_prompt |-> FALSE, input_tokens |-> <<>>, slot_mapping |-> <<>>,
     block_table |-> <<>>, left_padded_prompt_mask |-> <<>>,
     current_tkv_mask |-> <<>>, indices |-> <<>>]
NoInput == [new_reqs |-> <<>>, cached |-> <<>>]

\* execute_model has not returned: it is running, was aborted by an exception,
\* or was never called
NoOutput == [returned |-> FALSE, n_free_blocks |-> 0]

\* the exceptions that abort a step
E_KeyError == "KeyError"
E_IndexError == "IndexError"
E_PoolEmpty == "IndexError: pop from an empty deque"
E_OneRequest == "AssertionError: len(new_requests) == 1"
E_Join == "AssertionError: prompt_len <= self.tkv"
E_Capacity == "AssertionError: InputBatch.add_request"
E_Mixed == "AssertionError: len(scheduled_cached_reqs.req_ids) == 0"
E_NoDecode == "AssertionError: len(cached_request_data.req_ids) > 0"
E_DecodeAll == "AssertionError: len(req_id_to_index) == len(req_ids)"
E_MinBatch == "AssertionError: len(input_tokens) >= 2"

\* the runner's mutable fields, gathered so that a method is a function of them
Cur == [tkv |-> tkv, block_pool |-> block_pool, req_ids2blocks |-> req_ids2blocks,
        req_ids2reserved_blocks |-> req_ids2reserved_blocks, requests |-> requests,
        input_batch |-> input_batch, prefill_batch |-> prefill_batch,
        model_inputs |-> model_inputs, err |-> ""]

\* ---------------------------------------------------------------- slot table
\* mutant: the next slot index is the number of resident requests
IB_get_available_index_Count(ib) == Cardinality(DOMAIN ib)

\* InputBatch.req_id_to_index as a function req id -> slot index (0-based)
IB_get_available_index(ib) ==
    MinOf({i \in 0..Cardinality(DOMAIN ib) : \A r \in DOMAIN ib : ib[r] # i})

\* mutant: a full table takes one more request
IB_can_add_OneMore(ib, cap) == Cardinality(DOMAIN ib) <= cap

\* InputBatch.add_request without an explicit index; capacity max_num_reqs
IB_can_add(ib, cap) == Cardinality(DOMAIN ib) < cap
IB_add_request(ib, id) == DictPut(ib, id, IB_get_available_index(ib))

\* InputBatch.remove_request: unknown ids are ignored
IB_remove_request(ib, id) == DictPop(ib, id)

\* InputBatch.sorted_requests_ids: resident ids in slot order
RECURSIVE IB_sorted(_)
IB_sorted(ib) ==
    IF DOMAIN ib = {} THEN <<>>
    ELSE LET r == CHOOSE x \in DOMAIN ib : \A y \in DOMAIN ib : ib[x] <= ib[y]
         IN <<r>> \o IB_sorted(DictPop(ib, r))
sorted_requests_ids(ib) == IB_sorted(ib)

\* InputBatch.clear_requests
IB_clear_requests(ib) == EmptyDict

\* An InputBatch with its per-slot arrays.  rows[i] names the request whose
\* prompt tokens, output tokens and sampling parameters are stored in slot i
\* (0: nothing was ever stored there); removing a request leaves its row behind.
EmptyBatch(cap) ==
    [req_id_to_index |-> EmptyDict, rows |-> [i \in 0..(cap - 1) |-> 0],
     max_num_reqs |-> cap]

\* InputBatch.add_request(request, req_index)
add_request_at(b, id, i) ==
    [b EXCEPT !.req_id_to_index = DictPut(@, id, i), !.rows[i] = id]

\* InputBatch.add_request(request)
add_request(b, id) ==
    add_request_at(b, id, IB_get_available_index(b.req_id_to_index))

\* InputBatch.remove_request(req_id)
remove_request(b, id) ==
    [b EXCEPT !.req_id_to_index = IB_remove_request(@, id)]

\* InputBatch.req_id_to_dense_index: position of a resident request among the
\* active slots
req_id_to_dense_index(ib, id) == Cardinality({x \in DOMAIN ib : ib[x] < ib[id]})

\* mutant: the first active_count rows of the arrays are taken as they are
make_sampling_metadata_Unmasked(b) ==
    [k \in 1..Cardinality(DOMAIN b.req_id_to_index) |-> b.rows[k - 1]]

\* InputBatch._make_sampling_metadata: the rows of the active slots, in slot
\* order
make_sampling_metadata(b) ==
    LET ids == sorted_requests_ids(b.req_id_to_index)
    IN  [k \in 1..Len(ids) |-> b.rows[b.req_id_to_index[ids[k]]]]

\* a table to which the requests ids are added one after the other
RECURSIVE AddRequests(_, _)
AddRequests(b, ids) ==
    IF ids = <<>> THEN b ELSE AddRequests(add_request(b, Head(ids)), Tail(ids))

\* a table from which the requests ids are removed one after the other
RECURSIVE RemoveRequests(_, _)
RemoveRequests(b, ids) ==
    IF ids = <<>> THEN b ELSE RemoveRequests(remove_request(b, Head(ids)), Tail(ids))

\* ---------------------------------------------------------------- update_states
\* SpyreModelRunner.update_states: the loop over scheduled_cached_reqs reads
\* self.requests[req_id]; with no pipeline parallelism new_token_ids is empty
\* and nothing is appended
\* mutant: a cached id without request state is skipped
CachedAllKnown_Lenient(reqs, cached) == TRUE

CachedAllKnown(reqs, cached) == \A i \in 1..Len(cached) : cached[i] \in ReqIdsOf(reqs)

\* SpyreModelRunner.update_states: input_batch.remove_request and requests.pop
\* for every finished id
RECURSIVE RemoveFinished(_, _)
RemoveFinished(st, fin) ==
    IF fin = <<>> THEN st
    ELSE RemoveFinished(
            [st EXCEPT !.input_batch = IB_remove_request(@, Head(fin)),
                       !.requests = ReqPop(@, Head(fin))],
            Tail(fin))

\* mutant: a finished id without a block table frees the head of some table
BlocksToFree_Unknown(blocks, id) ==
    IF id \in DOMAIN blocks THEN blocks[id]
    ELSE IF \E x \in DOMAIN blocks : Len(blocks[x]) > 0
    THEN <<blocks[CHOOSE x \in DOMAIN blocks : Len(blocks[x]) > 0][1]>>
    ELSE <<>>

\* `if blocks_to_free := self.req_ids2blocks.pop(req_id, None)`: None and an
\* empty deque are both falsy
BlocksToFree(blocks, id) == IF id \in DOMAIN blocks THEN blocks[id] ELSE <<>>
IsTruthy(blocks_to_free) == Len(blocks_to_free) > 0

\* mutant: the last block of a finished request is not returned
ReturnToPool_DropLast(pool, blocks_to_free) ==
    pool \o SubSeq(blocks_to_free, 1, Len(blocks_to_free) - 1)

\* mutant: the blocks of a finished request are returned twice
ReturnToPool_Twice(pool, blocks_to_free) == pool \o blocks_to_free \o blocks_to_free

\* mutant: the blocks of a finished request go to the head of the pool
ReturnToPool_Front(pool, blocks_to_free) == blocks_to_free \o pool

\* the pool after `for block_id in blocks_to_free: block_pool.append(block_id)`
ReturnToPool(pool, blocks_to_free) == pool \o blocks_to_free

\* ContinuousBatchingSpyreModelRunner.update_states: free the blocks of the
\* finished requests
RECURSIVE FreeFinished(_, _)
FreeFinished(st, fin) ==
    IF fin = <<>> \/ st.err # "" THEN st
    ELSE LET id == Head(fin)
             blocks_to_free == BlocksToFree(st.req_ids2blocks, id)
             s1 == [st EXCEPT !.req_ids2blocks = DictPop(@, id)]
             s2 == IF ~IsTruthy(blocks_to_free) THEN s1
                   ELSE IF id \notin DOMAIN s1.req_ids2reserved_blocks
                   THEN [s1 EXCEPT !.err = E_KeyError]
                   ELSE [s1 EXCEPT !.req_ids2reserved_blocks = DictPop(@, id),
                                   !.block_pool = ReturnToPool(@, blocks_to_free)]
         IN FreeFinished(s2, Tail(fin))

\* the ids for which update_states logs "Freeing request id"
FreedReqs(blocks, fin) ==
    {id \in SeqToSet(fin) : IsTruthy(BlocksToFree(blocks, id))}

update_states(st, cached, fin) ==
    IF ~CachedAllKnown(st.requests, cached) THEN [st EXCEPT !.err = E_KeyError]
    ELSE FreeFinished(RemoveFinished(st, fin), fin)

\* ---------------------------------------------------------------- reduce_left_padding
min_left_pad(reqs) == MinOf({reqs[i].left_padding : i \in 1..Len(reqs)})

\* mutant: a partly padded block counts as a padded block
n_padded_blocks_RoundUp(reqs) == Ceil(min_left_pad(reqs), BlockSize)

n_padded_blocks(reqs) == min_left_pad(reqs) \div BlockSize

\* mutant: the whole minimal left padding is removed, block-aligned or not
ReduceOffset_Unaligned(reqs) == min_left_pad(reqs)

ReduceOffset(reqs) == n_padded_blocks(reqs) * BlockSize

\* the inner loop: k times popleft a block of request id, decrement its
\* reservation and return the block to the pool; an exception leaves the
\* mutations made before it
FreePaddedBlocks(s0, id, k) ==
    IF id \notin DOMAIN s0.req_ids2blocks THEN [s0 EXCEPT !.err = E_KeyError]
    ELSE IF Len(s0.req_ids2blocks[id]) = 0 THEN [s0 EXCEPT !.err = E_PoolEmpty]
    ELSE IF id \notin DOMAIN s0.req_ids2reserved_blocks
    THEN [s0 EXCEPT !.block_pool = @ \o Take(s0.req_ids2blocks[id], 1),
                    !.req_ids2blocks[id] = Drop(@, 1),
                    !.err = E_KeyError]
    ELSE IF Len(s0.req_ids2blocks[id]) < k
    THEN [s0 EXCEPT !.block_pool = @ \o s0.req_ids2blocks[id],
                    !.req_ids2blocks[id] = <<>>,
                    !.req_ids2reserved_blocks[id] = @ - Len(s0.req_ids2blocks[id]),
                    !.err = E_PoolEmpty]
    ELSE [s0 EXCEPT !.block_pool = @ \o Take(s0.req_ids2blocks[id], k),
                    !.req_ids2blocks[id] = Drop(@, k),
                    !.req_ids2reserved_blocks[id] = @ - k]

\* mutant: the blocks are freed but the request keeps its left padding
ReduceOne_KeepPadding(st, i, k, offset) ==
    FreePaddedBlocks(st, st.requests[i].req_id, k)

\* mutant: the left padding is lowered by the number of blocks, not of positions
ReduceOne_ByBlocks(st, i, k, offset) ==
    FreePaddedBlocks([st EXCEPT !.requests[i].left_padding = @ - k],
                     st.requests[i].req_id, k)

\* mutant: the reservation is lowered but the padded blocks stay in the table
ReduceOne_ReservedOnly(st, i, k, offset) ==
    LET id == st.requests[i].req_id
    IN  IF id \notin DOMAIN st.req_ids2reserved_blocks
        THEN [st EXCEPT !.err = E_KeyError]
        ELSE [st EXCEPT !.requests[i].left_padding = @ - offset,
                        !.req_ids2reserved_blocks[id] = @ - k]

\* the body of `for req in requests` for the request at position i: lower its
\* left padding, then k times popleft / append to the pool / reserved -= 1
ReduceOne(st, i, k, offset) ==
    FreePaddedBlocks([st EXCEPT !.requests[i].left_padding = @ - offset],
                     st.requests[i].req_id, k)

RECURSIVE ReduceLoop(_, _, _, _)
ReduceLoop(st, i, k, offset) ==
    IF i > Len(st.requests) \/ st.err # "" THEN st
    ELSE ReduceLoop(ReduceOne(st, i, k, offset), i + 1, k, offset)

reduce_left_padding(st) ==
    IF Len(st.requests) = 0 THEN st
    ELSE LET k == n_padded_blocks(st.requests)
             offset == ReduceOffset(st.requests)
             s1 == IF offset > 0 THEN ReduceLoop(st, 1, k, offset) ELSE st
         IN  IF s1.err # "" THEN s1 ELSE [s1 EXCEPT !.tkv = @ - offset]

\* ---------------------------------------------------------------- block pool
\* mutant: an empty pool hands out block 0 again
popleft_Reuse(pool) ==
    IF Len(pool) = 0 THEN [ok |-> TRUE, block |-> 0, rest |-> pool]
    ELSE [ok |-> TRUE, block |-> Head(pool), rest |-> Tail(pool)]

\* mutant: the block is taken from the right end of the pool
popleft_Right(pool) ==
    IF Len(pool) = 0 THEN [ok |-> FALSE, block |-> -1, rest |-> pool]
    ELSE [ok |-> TRUE, block |-> pool[Len(pool)],
          rest |-> SubSeq(pool, 1, Len(pool) - 1)]

\* `self.block_pool.popleft()`: raises IndexError on an empty deque (ok is
\* FALSE and no block is returned)
popleft(pool) ==
    IF Len(pool) = 0 THEN [ok |-> FALSE, block |-> -1, rest |-> pool]
    ELSE [ok |-> TRUE, block |-> Head(pool), rest |-> Tail(pool)]

\* n times popleft(); when one of them raises, the blocks popped before it are
\* in a local list that is dropped
RECURSIVE PopBlocks(_, _)
PopBlocks(pool, n) ==
    IF n = 0 THEN [ok |-> TRUE, blocks |-> <<>>, rest |-> pool]
    ELSE LET h == popleft(pool)
         IN  IF ~h.ok THEN [ok |-> FALSE, blocks |-> <<>>, rest |-> h.rest]
             ELSE LET t == PopBlocks(h.rest, n - 1)
                  IN  [ok |-> t.ok, blocks |-> <<h.block>> \o t.blocks, rest |-> t.rest]

\* mutant: every ledger entry counts as one block
get_n_free_blocks_Entries(n, reserved) == n - Cardinality(DOMAIN reserved)

\* get_n_free_blocks
get_n_free_blocks(n, reserved) == n - SumValues(reserved)

\* ContinuousBatchingSpyreModelRunner.execute_model: the output it returns;
\* of its fields only n_free_blocks is kept
CBSpyreModelRunnerOutput(n, reserved) ==
    [returned |-> TRUE, n_free_blocks |-> get_n_free_blocks(n, reserved)]

\* ---------------------------------------------------------------- _prepare_prompt
is_new_batch(st) == Cardinality(DOMAIN st.req_ids2blocks) = 0

\* mutant: the join check rejects a prompt as long as the tkv
JoinAllowed_Strict(prompt_len, t) == prompt_len < t

\* `assert prompt_len <= self.tkv` when joining an existing decode batch
JoinAllowed(prompt_len, t) == prompt_len <= t

\* mutant: padding rounded down to a block boundary
block_padding_Floor(n) == (n \div BlockSize) * BlockSize

\* right padding to the next block boundary
block_padding(n) == Ceil(n, BlockSize) * BlockSize

\* mutant: the prompt is aligned with the padded length instead of the tkv
left_padding_of_Padded(t, prompt_len) == block_padding(t) - prompt_len

\* left padding that aligns the prompt with the tkv
left_padding_of(t, prompt_len) == t - prompt_len

\* mutant: the reservation counts one position more than the last one written
n_reserved_blocks_NoMinusOne(t, new_tokens) == Ceil(t + new_tokens, BlockSize)

\* mutant: the reservation covers the prefill alone
n_reserved_blocks_PromptOnly(t, new_tokens) == Ceil(t, BlockSize)

\* worst-case number of blocks of a sequence admitted at cursor t
n_reserved_blocks(t, new_tokens) == Ceil(t + new_tokens - 1, BlockSize)

\* mutant: a block is popped at every position
NumPrefillBlocks_PerPosition(padding) == padding

\* number of popleft() calls of `for pos_i in range(block_padding)`
NumPrefillBlocks(padding) == Cardinality({pos_i \in 0..(padding - 1) : pos_i % BlockSize = 0})

\* mutant: every position of a chunk gets the first slot of its block
PrefillSlots_NoOffset(blocks, padding) ==
    [j \in 1..padding |-> blocks[(j - 1) \div BlockSize + 1] * BlockSize]

\* `slot = block_number * self.block_size + block_offset` for pos_i in
\* range(block_padding), block_number the block popped for pos_i's chunk
PrefillSlots(blocks, padding) ==
    [j \in 1..padding |->
        (blocks[(j - 1) \div BlockSize + 1] * BlockSize) + ((j - 1) % BlockSize)]

\* the ModelForwardInputs a prefill returns, and self.model.indices
PrefillModelInputs(slots) ==
    [NoModelInputs EXCEPT !.is_prompt = TRUE, !.slot_mapping = <<slots>>,
                          !.indices = <<TRUE>>]

\* mutant: the join check comes after prefill_batch.clear_requests()
RejectJoin_Cleared(st) == [st EXCEPT !.prefill_batch = EmptyDict, !.err = E_Join]

\* the failing `assert prompt_len <= self.tkv`: the first statement of
\* _prepare_prompt that could change the runner comes after it
RejectJoin(st) == [st EXCEPT !.err = E_Join]

\* CachedRequestState(req_id, prompt_token_ids, sampling_params, generator,
\* output_token_ids, left_padding); of sampling_params max_tokens is kept
NewRequestState(request, lp) ==
    [req_id |-> request.req_id, prompt_len |-> request.prompt_len,
     max_tokens |-> request.max_tokens,
     output_token_ids |-> <<>>, left_padding |-> lp]

prepare_prompt(st, new_requests) ==
    IF Len(new_requests) # 1 THEN [st EXCEPT !.err = E_OneRequest]
    ELSE
    LET request == new_requests[1]
        req_id == request.req_id
        prompt_len == request.prompt_len
        new_batch == is_new_batch(st)
    IN  IF ~new_batch /\ ~JoinAllowed(prompt_len, st.tkv)
        THEN RejectJoin(st)
        ELSE
        LET n == IF new_batch THEN prompt_len ELSE st.tkv
            padding == block_padding(n)
            t == IF new_batch THEN padding ELSE st.tkv
            lp == left_padding_of(t, prompt_len)
            s1 == [st EXCEPT !.prefill_batch = EmptyDict,
                             !.tkv = t,
                             !.req_ids2reserved_blocks =
                                 DictPut(@, req_id, n_reserved_blocks(t, request.max_tokens))]
            got == PopBlocks(s1.block_pool, NumPrefillBlocks(padding))
        IN  IF ~got.ok
            THEN [s1 EXCEPT !.block_pool = got.rest, !.err = E_PoolEmpty]
            ELSE
            LET s2 == [s1 EXCEPT !.block_pool = got.rest,
                                 !.req_ids2blocks = DictPut(@, req_id, got.blocks),
                                 !.requests = ReqPut(@, NewRequestState(request, lp))]
            IN  IF ~IB_can_add(s2.input_batch, MaxNumSeqs)
                THEN [s2 EXCEPT !.err = E_Capacity]
                ELSE [s2 EXCEPT !.input_batch = IB_add_request(@, req_id),
                                !.prefill_batch = IB_add_request(@, req_id),
                                !.model_inputs = PrefillModelInputs(
                                    PrefillSlots(got.blocks, padding))]

\* ---------------------------------------------------------------- _prepare_decode
\* mutant: the block test uses the cursor after its advance
NeedsNewBlock_AfterAdvance(t, nheld) == (t + 1) \div BlockSize + 1 > nheld

\* `if self.tkv // self.block_size + 1 > len(self.req_ids2blocks[req_id])`
NeedsNewBlock(t, nheld) == t \div BlockSize + 1 > nheld

\* mutant: the cursor advances by a whole block
AdvanceTkv_Block(t) == t + BlockSize

\* mutant: a decode leaves the cursor where it is
AdvanceTkv_Stay(t) == t

\* `self.tkv = self.tkv + 1`
AdvanceTkv(t) == t + 1

\* mutant: the slot offset is taken from the cursor after its advance
DecodeSlot_AfterAdvance(blocks, t) ==
    (blocks[Len(blocks)] * BlockSize) + ((t + 1) % BlockSize)

\* `start_slot = block_table[-1][-1] * self.block_size`,
\* `offset = self.tkv % self.block_size`, `slot = [start_slot + offset]`
DecodeSlot(blocks, t) == (blocks[Len(blocks)] * BlockSize) + (t % BlockSize)

\* the row appended to the lists of _prepare_decode for one request
AppendRow(mi, blocks, slot, token, lp) ==
    [mi EXCEPT !.input_tokens = Append(@, <<token>>),
               !.slot_mapping = Append(@, <<slot>>),
               !.block_table = Append(@, blocks),
               !.left_padded_prompt_mask = Append(@, lp)]

\* the body of `for req_id in req_ids` for one request
DecodeOne(st, req_id, cached) ==
    IF req_id \notin ReqIdsOf(st.requests) \/ req_id \notin DOMAIN st.req_ids2blocks
    THEN [st EXCEPT !.err = E_KeyError]
    ELSE
    LET need == NeedsNewBlock(st.tkv, Len(st.req_ids2blocks[req_id]))
        h == popleft(st.block_pool)
    IN  IF need /\ ~h.ok THEN [st EXCEPT !.err = E_PoolEmpty]
        ELSE
        LET s1 == IF need
                  THEN [st EXCEPT !.req_ids2blocks[req_id] = Append(@, h.block),
                                  !.block_pool = h.rest]
                  ELSE st
        IN  IF Len(s1.req_ids2blocks[req_id]) = 0
               \/ Len(ReqGet(s1.requests, req_id).output_token_ids) = 0
            THEN [s1 EXCEPT !.err = E_IndexError]
            ELSE IF req_id \notin SeqToSet(cached)
            THEN [s1 EXCEPT !.err = E_KeyError]
            ELSE LET r == ReqGet(s1.requests, req_id)
                     blocks == s1.req_ids2blocks[req_id]
                 IN  [s1 EXCEPT !.model_inputs =
                         AppendRow(@, blocks, DecodeSlot(blocks, s1.tkv),
                                   r.output_token_ids[Len(r.output_token_ids)],
                                   r.left_padding)]

RECURSIVE DecodeLoop(_, _, _)
DecodeLoop(st, req_ids, cached) ==
    IF req_ids = <<>> \/ st.err # "" THEN st
    ELSE DecodeLoop(DecodeOne(st, Head(req_ids), cached), Tail(req_ids), cached)

\* the tensors built after the loop: current_tkv_mask and self.model.indices
DecodeTensors(mi, t, n_cached) ==
    [mi EXCEPT !.current_tkv_mask = [i \in 1..Len(mi.input_tokens) |-> t],
               !.indices = [i \in 1..n_cached |-> TRUE]]

\* mutant: the row added for the minimal batch size is marked active
PadDecodeBatch_AllActive(mi, n_cached) ==
    IF n_cached # 1 THEN mi
    ELSE [mi EXCEPT !.indices = @ \o <<TRUE>>,
                    !.input_tokens = @ \o @,
                    !.current_tkv_mask = @ \o @,
                    !.left_padded_prompt_mask = @ \o @,
                    !.block_table = @ \o @,
                    !.slot_mapping = @ \o @]

\* `if len(cached_request_data.req_ids) == 1`: pads for the minimal decode
\* batch size of 2
PadDecodeBatch(mi, n_cached) ==
    IF n_cached # 1 THEN mi
    ELSE [mi EXCEPT !.indices = @ \o <<FALSE>>,
                    !.input_tokens = @ \o @,
                    !.current_tkv_mask = @ \o @,
                    !.left_padded_prompt_mask = @ \o @,
                    !.block_table = @ \o @,
                    !.slot_mapping = @ \o @]

\* mutant: a decode may list fewer requests than are resident
DecodesAllResident_AtMost(ib, cached) == Len(cached) <= Cardinality(DOMAIN ib)

\* `assert len(self.input_batch.req_id_to_index) == len(cached_request_data.req_ids)`
DecodesAllResident(ib, cached) == Cardinality(DOMAIN ib) = Len(cached)

prepare_decode(st, cached) ==
    IF Len(cached) = 0 THEN [st EXCEPT !.err = E_NoDecode]
    ELSE IF ~DecodesAllResident(st.input_batch, cached)
    THEN [st EXCEPT !.err = E_DecodeAll]
    ELSE LET s1 == DecodeLoop(st, sorted_requests_ids(st.input_batch), cached)
         IN  IF s1.err # "" THEN [s1 EXCEPT !.model_inputs = st.model_inputs]
             ELSE
             LET s2 == [s1 EXCEPT !.tkv = AdvanceTkv(@)]
                 mi == PadDecodeBatch(
                          DecodeTensors(s2.model_inputs, s2.tkv, Len(cached)),
                          Len(cached))
             IN  IF Len(mi.input_tokens) < 2
                 THEN [s2 EXCEPT !.model_inputs = st.model_inputs, !.err = E_MinBatch]
                 ELSE [s2 EXCEPT !.model_inputs = mi]

\* ---------------------------------------------------------------- sampling
\* the token the sampler returns for row i (0-based) of the batch
SampledToken(i) == i + 1

\* mutant: with one request listed, the token of the next row is appended too
AppendSampled_PadRow(reqs, req_ids, i) ==
    [k \in 1..Len(reqs) |->
        IF \E j \in 1..Len(req_ids) : req_ids[j] = reqs[k].req_id
        THEN LET j == CHOOSE j \in 1..Len(req_ids) : req_ids[j] = reqs[k].req_id
             IN  [reqs[k] EXCEPT !.output_token_ids =
                     @ \o <<SampledToken(j - 1)>>
                       \o (IF Len(req_ids) = 1 THEN <<SampledToken(j)>> ELSE <<>>)]
        ELSE reqs[k]]

\* mutant: the sampled token replaces the tokens recorded so far
AppendSampled_Overwrite(reqs, req_ids, i) ==
    [k \in 1..Len(reqs) |->
        IF \E j \in 1..Len(req_ids) : req_ids[j] = reqs[k].req_id
        THEN LET j == CHOOSE j \in 1..Len(req_ids) : req_ids[j] = reqs[k].req_id
             IN  [reqs[k] EXCEPT !.output_token_ids = <<SampledToken(j - 1)>>]
        ELSE reqs[k]]

\* mutant: the sampled rows are handed out from the last request to the first
AppendSampled_Reversed(reqs, req_ids, i) ==
    [k \in 1..Len(reqs) |->
        IF \E j \in 1..Len(req_ids) : req_ids[j] = reqs[k].req_id
        THEN LET j == CHOOSE j \in 1..Len(req_ids) : req_ids[j] = reqs[k].req_id
             IN  [reqs[k] EXCEPT !.output_token_ids =
                     Append(@, SampledToken(Len(req_ids) - j))]
        ELSE reqs[k]]

\* execute_model: `req_state.output_token_ids.extend(sampled_ids[i])`
RECURSIVE AppendSampled(_, _, _)
AppendSampled(reqs, req_ids, i) ==
    IF i > Len(req_ids) THEN reqs
    ELSE LET r == ReqGet(reqs, req_ids[i])
         IN AppendSampled(
               ReqPut(reqs, [r EXCEPT !.output_token_ids = Append(@, SampledToken(i - 1))]),
               req_ids, i + 1)

\* ---------------------------------------------------------------- scheduler
\* what the scheduler may put in one SchedulerOutput.  The new request of a
\* step is read only by _prepare_prompt, so its fields are drawn there; until
\* then sched.new_reqs holds a placeholder of the same length.
NewRequestData(ids) ==
    {[req_id |-> i, prompt_len |-> p, max_tokens |-> m] :
        i \in ids, p \in 0..(MaxModelLen - 1), m \in {1, MaxNewTokens}}

Unread == [req_id |-> 0, prompt_len |-> 0, max_tokens |-> 0]

\* the ids a SchedulerOutput refers to: the resident ones and one that is not
\* resident (never admitted, or already removed)
Nameable(resident) ==
    resident \cup (IF ReqIds \ resident = {} THEN {} ELSE {MinOf(ReqIds \ resident)})

\* finished_req_ids is a set, iterated in any order: resident ids in every
\* order, with or without an id that is not resident
FinishedOrders(resident) ==
    LET res == UNION {Perms(F) : F \in SUBSET resident}
    IN  res \cup {Append(f, x) : f \in res, x \in Nameable(resident) \ resident}

\* a prefill step carries one new request and no cached request
PrefillInputs == {[new_reqs |-> <<Unread>>, cached |-> <<>>]}

\* a step that carries two new requests
TwoNewInputs == {[new_reqs |-> <<Unread, Unread>>, cached |-> <<>>]}

\* a decode step lists some request ids as cached
DecodeInputs(resident) ==
    {[new_reqs |-> <<>>, cached |-> SetToSortedSeq(S)] :
        S \in (SUBSET Nameable(resident)) \ {{}}}

\* a step that carries a new request together with a cached one
MixedInputs(resident) ==
    {[new_reqs |-> <<Unread>>, cached |-> <<c>>] : c \in Nameable(resident)}

StepInputs(resident, t) ==
    {NoInput} \cup PrefillInputs \cup TwoNewInputs \cup MixedInputs(resident)
        \cup (IF t < MaxTkv THEN DecodeInputs(resident) ELSE {})

total_num_scheduled_tokens(inp) == Len(inp.new_reqs) + Len(inp.cached)

\* a new request's id is not the id of a resident request: it is the next
\* unused id or the id of a request that is no longer resident
Resident == ReqIdsOf(requests) \cup DOMAIN req_ids2blocks
AdmissibleIds == {i \in ReqIds : i <= ids_issued + 1} \ Resident

\* ---------------------------------------------------------------- steps
\* prepare_model_input: `is_prompt = len(scheduler_output.scheduled_new_reqs) > 0`
is_prompt(new_reqs) == Len(new_reqs) > 0

\* mutant: a prompt step is let through whatever it lists as cached
MixedStep_Never(new_reqs, cached) == FALSE

\* the steps `assert len(scheduler_output.scheduled_cached_reqs.req_ids) == 0`
\* rejects
MixedStep(new_reqs, cached) == is_prompt(new_reqs) /\ Len(cached) # 0

\* _set_blocks: the pool holds every id 0..n-1 in order
InitialPool(n) == [i \in 1..n |-> i - 1]

\* SpyrePlatform.get_num_spyre_blocks_override(): 0 when no override is set
NumBlocksOverride == 0

\* the block count the constructor passes to _set_blocks
DefaultNumBlocks == (MaxNumSeqs * MaxModelLen) \div BlockSize

\* _get_num_blocks_available: the same value for both dynamo backends
get_num_blocks_available == MaxNumSeqs * (MaxModelLen \div BlockSize)

\* mutant: the pool is resized: it keeps its ids below the new count and gets
\* the ids from the old count on
set_blocks_Resize(st, num_blocks, num_blocks_override) ==
    LET n == IF num_blocks_override > 0 THEN num_blocks_override ELSE num_blocks
    IN  [st EXCEPT !.n_blocks = n,
                   !.block_pool = SelectSeq(@, LAMBDA b : b < n)
                        \o SelectSeq(InitialPool(n), LAMBDA b : b >= st.n_blocks)]

\* _set_blocks on the pool fields [n_blocks, block_pool] of the runner
set_blocks(st, num_blocks, num_blocks_override) ==
    LET n == IF num_blocks_override > 0 THEN num_blocks_override ELSE num_blocks
    IN  [st EXCEPT !.n_blocks = n, !.block_pool = InitialPool(n)]

\* ContinuousBatchingSpyreModelRunner.__init__
Init ==
    /\ tkv = 0
    /\ LET s == set_blocks([n_blocks |-> 0, block_pool |-> <<>>],
                           DefaultNumBlocks, NumBlocksOverride)
       IN  n_blocks = s.n_blocks /\ block_pool = s.block_pool
    /\ req_ids2blocks = EmptyDict
    /\ req_ids2reserved_blocks = EmptyDict
    /\ requests = <<>>
    /\ input_batch = EmptyDict
    /\ prefill_batch = EmptyDict
    /\ model_inputs = NoModelInputs
    /\ output = NoOutput
    /\ slot_table = EmptyBatch(MaxNumSeqs)
    /\ position_ids = <<>>
    /\ sched = NoSched
    /\ pc = "idle"
    /\ nsteps = 0
    /\ ids_issued = 0
    /\ err = ""

\* write the fields of st back to the runner; an exception aborts the step
Install(st, next_pc) ==
    /\ tkv' = st.tkv
    /\ block_pool' = st.block_pool
    /\ req_ids2blocks' = st.req_ids2blocks
    /\ req_ids2reserved_blocks' = st.req_ids2reserved_blocks
    /\ requests' = st.requests
    /\ input_batch' = st.input_batch
    /\ prefill_batch' = st.prefill_batch
    /\ model_inputs' = st.model_inputs
    /\ err' = st.err
    /\ pc' = IF st.err # "" THEN "aborted" ELSE next_pc
    /\ UNCHANGED <<n_blocks, slot_table, position_ids>>

\* execute_model, first part: update_states, then the early return when
\* nothing is scheduled
ExecUpdateStates ==
    /\ pc = "idle"
    /\ nsteps < MaxSteps
    /\ nsteps' = nsteps + 1
    /\ \E inp \in StepInputs(Resident, tkv) : \E fin \in FinishedOrders(Resident) :
        LET st == update_states(Cur, inp.cached, fin)
            none == total_num_scheduled_tokens(inp) = 0
        IN  /\ Install(st, IF none THEN "idle" ELSE "updated")
            /\ sched' = IF none /\ st.err = "" THEN NoSched
                        ELSE [new_reqs |-> inp.new_reqs, cached |-> inp.cached,
                              tkv0 |-> tkv, freed_reqs |-> FreedReqs(req_ids2blocks, fin)]
            /\ output' = IF none /\ st.err = ""
                         THEN CBSpyreModelRunnerOutput(n_blocks, st.req_ids2reserved_blocks)
                         ELSE NoOutput
            /\ UNCHANGED ids_issued

\* ContinuousBatchingSpyreModelRunner.prepare_model_input, first statement
ExecReduceLeftPadding ==
    /\ pc = "updated"
    /\ Install(reduce_left_padding(Cur), "reduced")
    /\ UNCHANGED <<output, sched, nsteps, ids_issued>>

\* SpyreModelRunner.prepare_model_input, prompt branch
ExecPreparePrompt ==
    /\ pc = "reduced"
    /\ is_prompt(sched.new_reqs)
    /\ IF MixedStep(sched.new_reqs, sched.cached)
       THEN /\ Install([Cur EXCEPT !.err = E_Mixed], "prepared")
            /\ UNCHANGED <<sched, ids_issued>>
       ELSE IF Len(sched.new_reqs) # 1
       THEN /\ Install(prepare_prompt(Cur, sched.new_reqs), "prepared")
            /\ UNCHANGED <<sched, ids_issued>>
       ELSE \E r \in NewRequestData(AdmissibleIds) :
            /\ Install(prepare_prompt(Cur, <<r>>), "prepared")
            /\ sched' = [sched EXCEPT !.new_reqs = <<r>>]
            /\ ids_issued' = IF r.req_id > ids_issued THEN r.req_id ELSE ids_issued
    /\ UNCHANGED <<output, nsteps>>

\* SpyreModelRunner.prepare_model_input, decode branch
ExecPrepareDecode ==
    /\ pc = "reduced"
    /\ ~is_prompt(sched.new_reqs)
    /\ Install(prepare_decode(Cur, sched.cached), "prepared")
    /\ UNCHANGED <<output, sched, nsteps, ids_issued>>

\* execute_model, last part: the sampled tokens are appended to the requests
\* and the output is returned
ExecSample ==
    /\ pc = "prepared"
    /\ requests' = AppendSampled(requests,
                       IF Len(sched.new_reqs) > 0
                       THEN [i \in 1..Len(sched.new_reqs) |-> sched.new_reqs[i].req_id]
                       ELSE sorted_requests_ids(input_batch),
                       1)
    /\ pc' = "idle"
    /\ sched' = NoSched
    /\ model_inputs' = NoModelInputs
    /\ output' = CBSpyreModelRunnerOutput(n_blocks, req_ids2reserved_blocks)
    /\ UNCHANGED <<tkv, n_blocks, block_pool, req_ids2blocks,
                   req_ids2reserved_blocks, input_batch, prefill_batch, slot_table,
                   position_ids, nsteps, ids_issued, err>>

\* finish_warmup: the block count is read again and the pool set up anew.  Its
\* caller is outside the runner; it calls between two steps, while no request
\* holds a block.
FinishWarmup ==
    /\ pc = "idle"
    /\ \A r \in DOMAIN req_ids2blocks : Len(req_ids2blocks[r]) = 0
    /\ LET s == set_blocks([n_blocks |-> n_blocks, block_pool |-> block_pool],
                           get_num_blocks_available, NumBlocksOverride)
       IN  n_blocks' = s.n_blocks /\ block_pool' = s.block_pool
    /\ UNCHANGED <<tkv, req_ids2blocks, req_ids2reserved_blocks, requests,
                   input_batch, prefill_batch, model_inputs, output, slot_table,
                   position_ids, sched, pc, nsteps, ids_issued, err>>

Next ==
    \/ FinishWarmup
    \/ ExecUpdateStates
    \/ ExecReduceLeftPadding
    \/ ExecPreparePrompt
    \/ ExecPrepareDecode
    \/ ExecSample

Spec == Init /\ [][Next]_vars

\* ---------------------------------------------------------------- slot table alone
\* An InputBatch of capacity max_num_seqs and the size-1 prefill batch, driven
\* by the operations the runner and test_sampling_metadata_in_input_batch apply
\* to them, every request with an id of its own.
MaxSlotReqs == NumReqIds + 2

runner_vars == <<tkv, n_blocks, block_pool, req_ids2blocks, req_ids2reserved_blocks,
                 requests, input_batch, model_inputs, output, position_ids, sched,
                 nsteps>>

\* the slot indices no resident request occupies
FreeIndices(b) ==
    {i \in 0..(b.max_num_reqs - 1) :
        \A r \in DOMAIN b.req_id_to_index : b.req_id_to_index[r] # i}

\* `input_batch.add_request(req, req_index)`: the test passes the indices
\* 0..batch_size-1 of an empty table; any free index is drawn here
SlotAddRequestAt ==
    /\ pc = "idle"
    /\ ids_issued < MaxSlotReqs
    /\ \E i \in FreeIndices(slot_table) :
          slot_table' = add_request_at(slot_table, ids_issued + 1, i)
    /\ ids_issued' = ids_issued + 1
    /\ UNCHANGED <<runner_vars, prefill_batch, pc, err>>

\* `input_batch.add_request(req)`: fails on a full table
SlotAddRequest ==
    /\ pc = "idle"
    /\ ids_issued < MaxSlotReqs
    /\ ids_issued' = ids_issued + 1
    /\ IF IB_can_add(slot_table.req_id_to_index, slot_table.max_num_reqs)
       THEN /\ slot_table' = add_request(slot_table, ids_issued + 1)
            /\ UNCHANGED <<pc, err>>
       ELSE /\ pc' = "aborted"
            /\ err' = E_Capacity
            /\ UNCHANGED slot_table
    /\ UNCHANGED <<runner_vars, prefill_batch>>

\* `input_batch.remove_request(req_id)` for a request added before, resident
\* or not
SlotRemoveRequest ==
    /\ pc = "idle"
    /\ \E id \in 1..ids_issued : slot_table' = remove_request(slot_table, id)
    /\ UNCHANGED <<runner_vars, prefill_batch, ids_issued, pc, err>>

\* _prepare_prompt: `self.prefill_batch.clear_requests()`, then the new request
\* is added to input_batch and to prefill_batch
SlotPrefill ==
    /\ pc = "idle"
    /\ ids_issued < MaxSlotReqs
    /\ ids_issued' = ids_issued + 1
    /\ LET cleared == IB_clear_requests(prefill_batch)
       IN  IF ~IB_can_add(slot_table.req_id_to_index, slot_table.max_num_reqs)
           THEN /\ prefill_batch' = cleared
                /\ pc' = "aborted"
                /\ err' = E_Capacity
                /\ UNCHANGED slot_table
           ELSE /\ slot_table' = add_request(slot_table, ids_issued + 1)
                /\ IF IB_can_add(cleared, 1)
                   THEN /\ prefill_batch' = IB_add_request(cleared, ids_issued + 1)
                        /\ UNCHANGED <<pc, err>>
                   ELSE /\ prefill_batch' = cleared
                        /\ pc' = "aborted"
                        /\ err' = E_Capacity
    /\ UNCHANGED runner_vars

SlotNext ==
    \/ SlotAddRequestAt
    \/ SlotAddRequest
    \/ SlotRemoveRequest
    \/ SlotPrefill

SpecSlotTable == Init /\ [][SlotNext]_vars

\* ---------------------------------------------------------------- admission layer
\* The runner driven by an admission layer that keeps the ledger within
\* n_blocks: it reads n_free_blocks from the output of the last step, prefills a
\* request only when the request's reservation is at most that count, and
\* schedules no decode for a request that has generated max_tokens tokens.

\* the free-block count the admission layer has in hand: n_free_blocks of the
\* last output and, before the first step, the count of an empty ledger
ReportedFreeBlocks ==
    IF output.returned THEN output.n_free_blocks
    ELSE get_n_free_blocks(n_blocks, EmptyDict)

\* the ledger entry _prepare_prompt writes for request r in a step whose
\* update_states left the runner in st
PrefillReservation(st, r) ==
    LET s == reduce_left_padding(st)
        t == IF is_new_batch(s) THEN block_padding(r.prompt_len) ELSE s.tkv
    IN  n_reserved_blocks(t, r.max_tokens)

\* every request has tokens left to generate
WithinBudget(reqs) ==
    \A i \in 1..Len(reqs) : Len(reqs[i].output_token_ids) < reqs[i].max_tokens

\* a prefill step with its new request drawn by the admission layer
AdmPrefillInputs ==
    {[new_reqs |-> <<r>>, cached |-> <<>>] :
        r \in NewRequestData({i \in ReqIds : i <= ids_issued + 1})}

\* the steps the admission layer schedules, st being the runner after
\* update_states
Admitted(inp, st) ==
    IF Len(inp.new_reqs) = 1 /\ Len(inp.cached) = 0
    THEN LET r == inp.new_reqs[1]
         IN  /\ r # Unread
             /\ r.req_id \notin ReqIdsOf(st.requests) \cup DOMAIN st.req_ids2blocks
             /\ PrefillReservation(st, r) <= ReportedFreeBlocks
    ELSE IF Len(inp.new_reqs) = 0 /\ Len(inp.cached) > 0
    THEN WithinBudget(st.requests)
    ELSE TRUE

\* execute_model, first part, on a step of the admission layer
AdmExecUpdateStates ==
    /\ pc = "idle"
    /\ nsteps < MaxSteps
    /\ nsteps' = nsteps + 1
    /\ \E inp \in StepInputs(Resident, tkv) \cup AdmPrefillInputs :
       \E fin \in FinishedOrders(Resident) :
        LET st == update_states(Cur, inp.cached, fin)
            none == total_num_scheduled_tokens(inp) = 0
        IN  /\ Admitted(inp, st)
            /\ Install(st, IF none THEN "idle" ELSE "updated")
            /\ sched' = IF none /\ st.err = "" THEN NoSched
                        ELSE [new_reqs |-> inp.new_reqs, cached |-> inp.cached,
                              tkv0 |-> tkv, freed_reqs |-> FreedReqs(req_ids2blocks, fin)]
            /\ output' = IF none /\ st.err = ""
                         THEN CBSpyreModelRunnerOutput(n_blocks, st.req_ids2reserved_blocks)
                         ELSE NoOutput
            /\ ids_issued' = IF Len(inp.new_reqs) = 1 /\ inp.new_reqs[1].req_id > ids_issued
                             THEN inp.new_reqs[1].req_id ELSE ids_issued

\* SpyreModelRunner.prepare_model_input, prompt branch, for the request the
\* admission layer put in the step
AdmExecPreparePrompt ==
    /\ pc = "reduced"
    /\ is_prompt(sched.new_reqs)
    /\ Install(IF MixedStep(sched.new_reqs, sched.cached)
               THEN [Cur EXCEPT !.err = E_Mixed]
               ELSE prepare_prompt(Cur, sched.new_reqs),
               "prepared")
    /\ UNCHANGED <<output, sched, nsteps, ids_issued>>

AdmNext ==
    \/ FinishWarmup
    \/ AdmExecUpdateStates
    \/ ExecReduceLeftPadding
    \/ AdmExecPreparePrompt
    \/ ExecPrepareDecode
    \/ ExecSample

SpecAdmission == Init /\ [][AdmNext]_vars

\* ---------------------------------------------------------------- static batching
\* StaticBatchingSpyreModelRunner: every prefill starts a new batch, padded to
\* one of the warm-up shapes; it has no block pool and no cursor.

\* SpyrePlatform.get_warmup_shapes(scheduler_config), in configured order
spyre_warmup_shapes ==
    << [prompt_length |-> 2, new_tokens |-> 2, batch_size |-> 2],
       [prompt_length |-> 3, new_tokens |-> 1, batch_size |-> 3],
       [prompt_length |-> 3, new_tokens |-> 2, batch_size |-> 1] >>

E_NoShape == "AssertionError: No shapes available to run prefill batch"
E_NoPrompt == "AssertionError: len(new_requests) > 0"
E_NoPositions == "AttributeError: 'NoneType' object has no attribute 'shape'"

\* `len(new_requests) <= shape["batch_size"]`
FitsBatch(shapes, n) == SelectSeq(shapes, LAMBDA shape : n <= shape.batch_size)

\* the filter applied for one request of the loop
FitsRequest(shapes, r) ==
    SelectSeq(shapes, LAMBDA shape : /\ r.prompt_len <= shape.prompt_length
                                     /\ r.max_tokens <= shape.new_tokens)

\* applicable_spyre_warmup_shapes after the loop over the new requests
RECURSIVE ApplicableShapes(_, _)
ApplicableShapes(shapes, reqs) ==
    IF reqs = <<>> THEN shapes
    ELSE ApplicableShapes(FitsRequest(shapes, Head(reqs)), Tail(reqs))

\* the assert on an empty list of applicable shapes fails
NoShape == [ok |-> FALSE, padded_batch_size |-> 0, min_pad_length_batch |-> 0]

\* mutant: of several applicable shapes the last one is selected
get_padded_batch_size_Last(shapes, new_requests) ==
    LET a == ApplicableShapes(FitsBatch(shapes, Len(new_requests)), new_requests)
    IN  IF a = <<>> THEN NoShape
        ELSE [ok |-> TRUE, padded_batch_size |-> a[Len(a)].batch_size,
              min_pad_length_batch |-> a[Len(a)].prompt_length]

\* _get_padded_batch_size
get_padded_batch_size(shapes, new_requests) ==
    LET a == ApplicableShapes(FitsBatch(shapes, Len(new_requests)), new_requests)
    IN  IF a = <<>> THEN NoShape
        ELSE [ok |-> TRUE, padded_batch_size |-> a[1].batch_size,
              min_pad_length_batch |-> a[1].prompt_length]

MaxOf(S) == CHOOSE x \in S : \A y \in S : y <= x

\* _prepare_pad_input_ids: every row is left-padded to max_len
max_len(lens, min_pad_length) == MaxOf({min_pad_length} \cup SeqToSet(lens))

\* a row of the padded input: pads on the left, then the seq_len tokens
PaddedRow(seq_len, width) == [pads |-> width - seq_len, seq_len |-> seq_len]

\* tokenizer pad_token_id
PadTokenId == 0

\* the last position id of a row: the tokens have the positions
\* 0..seq_len-1, a row of pads alone carries the pad token id
LastPosition(seq_len) == IF seq_len = 0 THEN PadTokenId ELSE seq_len - 1

\* input_token_list: the prompts, then zeros of min_pad_length up to the
\* padded batch size
InputTokenLens(new_requests, sel) ==
    [i \in 1..Len(new_requests) |-> new_requests[i].prompt_len]
      \o [i \in 1..(sel.padded_batch_size - Len(new_requests)) |->
              sel.min_pad_length_batch]

\* the fields of the static runner
StaticCur == [requests |-> requests, input_batch |-> input_batch,
              model_inputs |-> model_inputs, position_ids |-> position_ids,
              err |-> ""]

\* mutant: the requests resident before stay in the request map
StaticReset_KeepRequests(st) == [st EXCEPT !.input_batch = IB_clear_requests(@)]

\* `self.input_batch.clear_requests()`, `self.requests = {}`
StaticReset(st) ==
    [st EXCEPT !.input_batch = IB_clear_requests(@), !.requests = <<>>]

\* the loop `for request_data in new_requests`: request state and slot
RECURSIVE StaticAddRequests(_, _)
StaticAddRequests(st, reqs) ==
    IF reqs = <<>> \/ st.err # "" THEN st
    ELSE LET s1 == [st EXCEPT !.requests = ReqPut(@, NewRequestState(Head(reqs), 0))]
         IN  IF ~IB_can_add(s1.input_batch, MaxNumSeqs)
             THEN [s1 EXCEPT !.err = E_Capacity]
             ELSE StaticAddRequests(
                     [s1 EXCEPT !.input_batch = IB_add_request(@, Head(reqs).req_id)],
                     Tail(reqs))

\* StaticBatchingSpyreModelRunner._prepare_prompt; self.model.indices is not
\* kept
static_prepare_prompt(st, new_requests) ==
    IF Len(new_requests) = 0 THEN [st EXCEPT !.err = E_NoPrompt]
    ELSE
    LET sel == get_padded_batch_size(spyre_warmup_shapes, new_requests)
    IN  IF ~sel.ok THEN [st EXCEPT !.err = E_NoShape]
        ELSE
        LET s1 == StaticAddRequests(StaticReset(st), new_requests)
            lens == InputTokenLens(new_requests, sel)
            width == max_len(lens, sel.min_pad_length_batch)
        IN  IF s1.err # "" THEN s1
            ELSE [s1 EXCEPT
                    !.position_ids = [i \in 1..Len(lens) |-> LastPosition(lens[i])],
                    !.model_inputs =
                        [NoModelInputs EXCEPT
                            !.is_prompt = TRUE,
                            !.input_tokens =
                                [i \in 1..Len(lens) |-> PaddedRow(lens[i], width)]]]

\* the loop of the static _prepare_decode: the row of every listed request
\* gets its last output token
RECURSIVE StaticDecodeLoop(_, _, _)
StaticDecodeLoop(st, rows, cached) ==
    IF cached = <<>> THEN [err |-> "", rows |-> rows]
    ELSE LET id == Head(cached)
         IN  IF id \notin ReqIdsOf(st.requests)
             THEN [err |-> E_KeyError, rows |-> rows]
             ELSE IF Len(ReqGet(st.requests, id).output_token_ids) = 0
             THEN [err |-> E_IndexError, rows |-> rows]
             ELSE IF id \notin DOMAIN st.input_batch
             THEN [err |-> E_KeyError, rows |-> rows]
             ELSE IF st.input_batch[id] + 1 > Len(rows)
             THEN [err |-> E_IndexError, rows |-> rows]
             ELSE StaticDecodeLoop(
                     st,
                     [rows EXCEPT ![st.input_batch[id] + 1] =
                         <<Last(ReqGet(st.requests, id).output_token_ids)>>],
                     Tail(cached))

\* StaticBatchingSpyreModelRunner._prepare_decode with _update_position_ids
static_prepare_decode(st, cached) ==
    IF Len(cached) = 0 THEN [st EXCEPT !.err = E_NoDecode]
    ELSE IF st.position_ids = <<>> THEN [st EXCEPT !.err = E_NoPositions]
    ELSE LET l == StaticDecodeLoop(st, [i \in 1..Len(st.position_ids) |-> <<0>>],
                                   cached)
         IN  IF l.err # "" THEN [st EXCEPT !.err = l.err]
             ELSE [st EXCEPT
                     !.position_ids =
                         [i \in 1..Len(st.position_ids) |-> st.position_ids[i] + 1],
                     !.model_inputs = [NoModelInputs EXCEPT !.input_tokens = l.rows]]

\* SpyreModelRunner.update_states, which the static runner does not override
base_update_states(st, cached, fin) ==
    IF ~CachedAllKnown(st.requests, cached) THEN [st EXCEPT !.err = E_KeyError]
    ELSE RemoveFinished(st, fin)

\* the new requests of a prefill step: up to max_num_seqs requests, numbered
\* in the order of their arrival
StaticNewRequests ==
    UNION {{[i \in 1..k |-> [req_id |-> ids_issued + i, prompt_len |-> f[i][1],
                             max_tokens |-> f[i][2]]] :
               f \in [1..k -> (0..(MaxModelLen - 1)) \X {1, MaxNewTokens}]} :
           k \in {j \in 1..MaxNumSeqs : ids_issued + j <= NumReqIds}}

StaticStepInputs(resident) ==
    {NoInput} \cup {[new_reqs |-> n, cached |-> <<>>] : n \in StaticNewRequests}
        \cup MixedInputs(resident) \cup DecodeInputs(resident)

StaticInstall(st, next_pc) ==
    /\ requests' = st.requests
    /\ input_batch' = st.input_batch
    /\ model_inputs' = st.model_inputs
    /\ position_ids' = st.position_ids
    /\ err' = st.err
    /\ pc' = IF st.err # "" THEN "aborted" ELSE next_pc
    /\ UNCHANGED <<tkv, n_blocks, block_pool, req_ids2blocks,
                   req_ids2reserved_blocks, prefill_batch, output, slot_table>>

\* execute_model, first part.  resident0 is the set of requests resident when
\* prepare_model_input is called
StaticExecUpdateStates ==
    /\ pc = "idle"
    /\ nsteps < MaxSteps
    /\ nsteps' = nsteps + 1
    /\ \E inp \in StaticStepInputs(ReqIdsOf(requests)) :
       \E fin \in FinishedOrders(ReqIdsOf(requests)) :
        LET st == base_update_states(StaticCur, inp.cached, fin)
            none == total_num_scheduled_tokens(inp) = 0
        IN  /\ StaticInstall(st, IF none THEN "idle" ELSE "updated")
            /\ sched' = IF none /\ st.err = "" THEN NoSched
                        ELSE [new_reqs |-> inp.new_reqs, cached |-> inp.cached,
                              resident0 |-> ReqIdsOf(st.requests)]
            /\ ids_issued' = IF Len(inp.cached) = 0
                             THEN ids_issued + Len(inp.new_reqs) ELSE ids_issued

\* prepare_model_input, prompt branch
StaticExecPreparePrompt ==
    /\ pc = "updated"
    /\ is_prompt(sched.new_reqs)
    /\ StaticInstall(IF MixedStep(sched.new_reqs, sched.cached)
                     THEN [StaticCur EXCEPT !.err = E_Mixed]
                     ELSE static_prepare_prompt(StaticCur, sched.new_reqs),
                     "prepared")
    /\ UNCHANGED <<sched, nsteps, ids_issued>>

\* prepare_model_input, decode branch
StaticExecPrepareDecode ==
    /\ pc = "updated"
    /\ ~is_prompt(sched.new_reqs)
    /\ StaticInstall(static_prepare_decode(StaticCur, sched.cached), "prepared")
    /\ UNCHANGED <<sched, nsteps, ids_issued>>

\* execute_model, last part
StaticExecSample ==
    /\ pc = "prepared"
    /\ requests' = AppendSampled(requests,
                       IF Len(sched.new_reqs) > 0
                       THEN [i \in 1..Len(sched.new_reqs) |-> sched.new_reqs[i].req_id]
                       ELSE sorted_requests_ids(input_batch),
                       1)
    /\ pc' = "idle"
    /\ sched' = NoSched
    /\ model_inputs' = NoModelInputs
    /\ UNCHANGED <<tkv, n_blocks, block_pool, req_ids2blocks,
                   req_ids2reserved_blocks, input_batch, prefill_batch, output,
                   slot_table, position_ids, nsteps, ids_issued, err>>

StaticNext ==
    \/ StaticExecUpdateStates
    \/ StaticExecPreparePrompt
    \/ StaticExecPrepareDecode
    \/ StaticExecSample

SpecStatic == Init /\ [][StaticNext]_vars

\* ---------------------------------------------------------------- properties
RECURSIVE HeldCount(_)
\* number of block ids in the block tables of a req id -> deque map
HeldCount(blocks) ==
    IF DOMAIN blocks = {} THEN 0
    ELSE LET r == CHOOSE x \in DOMAIN blocks : TRUE
         IN Len(blocks[r]) + HeldCount(DictPop(blocks, r))

RECURSIVE HeldSeq(_)
\* every block-table entry, one after the other
HeldSeq(blocks) ==
    IF DOMAIN blocks = {} THEN <<>>
    ELSE LET r == CHOOSE x \in DOMAIN blocks : TRUE
         IN blocks[r] \o HeldSeq(DictPop(blocks, r))

NoDuplicates(s) == Cardinality(SeqToSet(s)) = Len(s)

IsPrefillStep == Len(sched.new_reqs) = 1 /\ Len(sched.cached) = 0
IsDecodeStep == Len(sched.new_reqs) = 0 /\ Len(sched.cached) > 0
NewReqId == sched.new_reqs[1].req_id

\* C1: block conservation.  In every state of a step that has not been aborted
\* by an exception (after update_states, reduce_left_padding, _prepare_prompt,
\* _prepare_decode and sampling) the number of ids in the free pool plus the
\* lengths of all block tables equals n_blocks.
C1_BlockConservation ==
    pc # "aborted" => Len(block_pool) + HeldCount(req_ids2blocks) = n_blocks

\* C1 witness: a prefill has just allocated while another request holds
\* blocks, in a step whose update_states freed a finished request's blocks.
C1_Witness ==
    /\ pc = "prepared"
    /\ IsPrefillStep
    /\ sched.freed_reqs # {}
    /\ Cardinality(DOMAIN req_ids2blocks) >= 2
    /\ \A r \in DOMAIN req_ids2blocks : Len(req_ids2blocks[r]) > 0
    /\ Len(block_pool) > 0

\* C2: exclusive ownership.  In every reachable state no block id occurs twice
\* in the free pool followed by all block tables, and every id is one of the
\* n_blocks ids of the pool.
C2_ExclusiveOwnership ==
    /\ NoDuplicates(block_pool \o HeldSeq(req_ids2blocks))
    /\ \A i \in 1..Len(block_pool) : block_pool[i] \in 0..(n_blocks - 1)
    /\ \A r \in DOMAIN req_ids2blocks : \A i \in 1..Len(req_ids2blocks[r]) :
          req_ids2blocks[r][i] \in 0..(n_blocks - 1)

\* C2 witness: two requests were freed by this step's update_states and the
\* request prefilled in the same step received blocks, next to a request that
\* still holds blocks from before.
C2_Witness ==
    /\ pc = "prepared"
    /\ IsPrefillStep
    /\ Cardinality(sched.freed_reqs) = 2
    /\ Len(req_ids2blocks[NewReqId]) > 0
    /\ \E r \in DOMAIN req_ids2blocks : r # NewReqId /\ Len(req_ids2blocks[r]) > 0

LeftPads(reqs) == {reqs[i].left_padding : i \in 1..Len(reqs)}

\* C3: join precondition.  When _prepare_prompt is about to run for any new
\* request r: if requests are resident it raises the join assertion exactly when
\* r.prompt_len > tkv and can complete only when r.prompt_len <= tkv; if no
\* request is resident the join assertion is never raised.  A step aborted by
\* the join assertion had requests resident and a prompt longer than tkv.
C3_JoinPrecondition ==
    /\ (pc = "reduced" /\ IsPrefillStep) =>
          \A r \in NewRequestData(AdmissibleIds) :
              LET s == prepare_prompt(Cur, <<r>>)
              IN  IF DOMAIN req_ids2blocks = {}
                  THEN s.err # E_Join
                  ELSE /\ (r.prompt_len > tkv) <=> (s.err = E_Join)
                       /\ (s.err = "") => (r.prompt_len <= tkv)
    /\ (pc = "aborted" /\ err = E_Join) =>
          /\ DOMAIN req_ids2blocks # {}
          /\ sched.new_reqs[1].prompt_len > tkv

\* C3 witness: a join was rejected because the prompt is longer than the tkv.
C3_Witness ==
    /\ pc = "aborted"
    /\ err = E_Join
    /\ DOMAIN req_ids2blocks # {}
    /\ sched.new_reqs[1].prompt_len > tkv
    /\ tkv > 0

\* C4: fresh-batch prefill.  After a prefill that found no request resident
\* (the new request is the only one with a block table), tkv is
\* ceil(p / block_size) * block_size and the request holds ceil(p / block_size)
\* blocks, p its prompt length, whatever tkv was before.
C4_FreshPrefill ==
    (pc = "prepared" /\ IsPrefillStep /\ DOMAIN req_ids2blocks = {NewReqId}) =>
        LET p == sched.new_reqs[1].prompt_len
        IN  /\ tkv = Ceil(p, BlockSize) * BlockSize
            /\ Len(req_ids2blocks[NewReqId]) = Ceil(p, BlockSize)

\* C4 witness: a fresh-batch prefill with a non-empty prompt replaced a larger
\* tkv left over from the previous batch.
C4_Witness ==
    /\ pc = "prepared"
    /\ IsPrefillStep
    /\ DOMAIN req_ids2blocks = {NewReqId}
    /\ sched.new_reqs[1].prompt_len > 0
    /\ sched.tkv0 > tkv
    /\ (sched.tkv0 - tkv) % BlockSize = 0

\* C5: whenever _prepare_decode is about to run and completes, the tkv it
\* leaves is the tkv it found plus 1, for any number of resident requests.
C5_DecodeAdvancesByOne ==
    (pc = "reduced" /\ IsDecodeStep) =>
        LET s == prepare_decode(Cur, sched.cached)
        IN  s.err = "" => s.tkv = tkv + 1

\* C5 witness: a decode of two or more resident requests has completed.
C5_Witness ==
    /\ pc = "prepared"
    /\ IsDecodeStep
    /\ Cardinality(DOMAIN input_batch) >= 2
    /\ tkv = sched.tkv0 + 1

\* C6 as claimed: tkv decreases only in reduce_left_padding, by a multiple of
\* block_size.
C6_Original ==
    [][tkv' < tkv =>
          /\ pc = "updated"
          /\ (tkv - tkv') % BlockSize = 0]_vars

\* C6 amended: tkv decreases only in reduce_left_padding, by a positive
\* multiple of block_size, or in a prefill that starts a fresh batch, which
\* re-initializes it to a multiple of block_size; decode, finish processing
\* and a prefill joining a batch never lower it.
C6_TkvDecreases ==
    [][tkv' < tkv =>
          \/ /\ pc = "updated"
             /\ (tkv - tkv') % BlockSize = 0
          \/ /\ pc = "reduced"
             /\ IsPrefillStep
             /\ DOMAIN req_ids2blocks = {}
             /\ tkv' % BlockSize = 0]_vars

\* C6 witness: a fresh-batch prefill lowered tkv by an amount that is not a
\* multiple of block_size.
C6_Witness ==
    /\ pc = "prepared"
    /\ IsPrefillStep
    /\ DOMAIN req_ids2blocks = {NewReqId}
    /\ tkv < sched.tkv0
    /\ (sched.tkv0 - tkv) % BlockSize # 0

\* C7: when reduce_left_padding is about to run, with m the minimal left
\* padding and k = floor(m / block_size): it raises nothing; if no request is
\* resident or k = 0 it changes nothing; otherwise every block table loses its
\* first k blocks, every left padding drops by k * block_size and stays >= 0,
\* and tkv drops by k * block_size.
C7_WholeBlocksOnly ==
    pc = "updated" =>
        LET s == reduce_left_padding(Cur)
            k == IF Len(requests) = 0 THEN 0 ELSE MinOf(LeftPads(requests)) \div BlockSize
        IN  /\ s.err = ""
            /\ k = 0 => s = Cur
            /\ k > 0 =>
                /\ s.tkv = tkv - k * BlockSize
                /\ Len(s.requests) = Len(requests)
                /\ \A i \in 1..Len(requests) :
                      /\ s.requests[i].left_padding =
                            requests[i].left_padding - k * BlockSize
                      /\ s.requests[i].left_padding >= 0
                /\ DOMAIN s.req_ids2blocks = DOMAIN req_ids2blocks
                /\ \A r \in DOMAIN req_ids2blocks :
                      s.req_ids2blocks[r] = Drop(req_ids2blocks[r], k)

\* C7 witness: reclamation has removed whole blocks and left a request with a
\* partial block of left padding.
C7_Witness ==
    /\ pc = "reduced"
    /\ tkv < sched.tkv0
    /\ \E i \in 1..Len(requests) :
          requests[i].left_padding > 0 /\ requests[i].left_padding < BlockSize

\* C8: idempotence.  From every state of a step that has not been aborted, a
\* second reduce_left_padding right after a first one changes nothing.
C8_ReduceIdempotent ==
    pc # "aborted" =>
        LET s1 == reduce_left_padding(Cur)
        IN  reduce_left_padding(s1) = s1

\* C8 witness: the first call reclaimed at least one block.
C8_Witness ==
    /\ pc = "reduced"
    /\ tkv < sched.tkv0
    /\ Len(requests) >= 1
    /\ reduce_left_padding(Cur) = Cur

\* C9: reclamation keeps alignment.  When reduce_left_padding is about to run,
\* it keeps the difference of any two requests' left paddings and keeps
\* tkv - left_padding of every request.
C9_AlignmentKept ==
    pc = "updated" =>
        LET s == reduce_left_padding(Cur)
        IN  /\ Len(s.requests) = Len(requests)
            /\ \A i, j \in 1..Len(requests) :
                  s.requests[i].left_padding - s.requests[j].left_padding
                      = requests[i].left_padding - requests[j].left_padding
            /\ \A i \in 1..Len(requests) :
                  /\ s.requests[i].req_id = requests[i].req_id
                  /\ s.tkv - s.requests[i].left_padding
                        = tkv - requests[i].left_padding

\* C9 witness: reclamation has lowered the tkv of a batch of two requests with
\* different left paddings.
C9_Witness ==
    /\ pc = "reduced"
    /\ tkv < sched.tkv0
    /\ \E i, j \in 1..Len(requests) :
          requests[i].left_padding # requests[j].left_padding

\* C10: after every completed prefill the new request's left padding plus its
\* prompt length equals tkv.
C10_LeftPaddingAligns ==
    (pc = "prepared" /\ IsPrefillStep) =>
        LET r == ReqGet(requests, NewReqId)
        IN  /\ r.prompt_len = sched.new_reqs[1].prompt_len
            /\ r.left_padding + r.prompt_len = tkv
            /\ r.left_padding >= 0

\* C10 witness: a request joined a batch at a tkv that is not a block boundary
\* and got a positive left padding.
C10_Witness ==
    /\ pc = "prepared"
    /\ IsPrefillStep
    /\ Cardinality(DOMAIN req_ids2blocks) >= 2
    /\ tkv % BlockSize # 0
    /\ ReqGet(requests, NewReqId).left_padding > 0

\* C11: after every completed prefill the reservation-ledger entry of the new
\* request is ceil((tkv + max_tokens - 1) / block_size), tkv being the cursor
\* the prefill leaves: the block padding of the prompt for a fresh batch, the
\* cursor at step entry less what reclamation removed for a join.
C11_ReservationAtPrefill ==
    (pc = "prepared" /\ IsPrefillStep) =>
        LET m == sched.new_reqs[1].max_tokens
            p == sched.new_reqs[1].prompt_len
            fresh == DOMAIN req_ids2blocks = {NewReqId}
        IN  /\ NewReqId \in DOMAIN req_ids2reserved_blocks
            /\ req_ids2reserved_blocks[NewReqId] = -((-(tkv + m - 1)) \div BlockSize)
            /\ fresh => tkv = Ceil(p, BlockSize) * BlockSize
            /\ ~fresh => tkv <= sched.tkv0 /\ (sched.tkv0 - tkv) % BlockSize = 0

\* C11 witness: a request with max_tokens > 1 joined a batch after the cursor
\* had moved, and its reservation exceeds the blocks it was given.
C11_Witness ==
    /\ pc = "prepared"
    /\ IsPrefillStep
    /\ Cardinality(DOMAIN req_ids2blocks) >= 2
    /\ sched.new_reqs[1].max_tokens > 1
    /\ tkv > sched.new_reqs[1].prompt_len
    /\ req_ids2reserved_blocks[NewReqId] > Len(req_ids2blocks[NewReqId])

\* C12: whenever _prepare_decode is about to run and completes, writing
\* position tkv: a resident request whose table does not reach the block that
\* position tkv starts (tkv a multiple of block_size, table of at most
\* tkv / block_size blocks) gets exactly one block, taken from the pool,
\* appended; every other resident request keeps its table as it is.
C12_OneBlockAtBoundary ==
    (pc = "reduced" /\ IsDecodeStep) =>
        LET s == prepare_decode(Cur, sched.cached)
        IN  s.err = "" =>
                \A r \in DOMAIN input_batch :
                    LET old == req_ids2blocks[r]
                        new == s.req_ids2blocks[r]
                    IN  IF tkv % BlockSize = 0 /\ Len(old) <= tkv \div BlockSize
                        THEN /\ Len(new) = Len(old) + 1
                             /\ SubSeq(new, 1, Len(old)) = old
                             /\ new[Len(new)] \in SeqToSet(block_pool)
                        ELSE new = old

\* C12 witness: a decode of two requests at a block boundary has given each of
\* them one more block.
C12_Witness ==
    /\ pc = "prepared"
    /\ IsDecodeStep
    /\ Cardinality(DOMAIN input_batch) >= 2
    /\ (tkv - 1) % BlockSize = 0
    /\ tkv > 1
    /\ \A r \in DOMAIN input_batch :
          Len(req_ids2blocks[r]) = (tkv - 1) \div BlockSize + 1

\* the last entry of a block table
LastBlock(blocks) == blocks[Len(blocks)]

\* C13 as claimed: after a completed decode the slot of every resident request
\* is last_block_id * block_size + (tkv mod block_size) with tkv the cursor
\* after its advance for this step.
C13_Original ==
    (pc = "prepared" /\ IsDecodeStep) =>
        LET ids == sorted_requests_ids(input_batch)
        IN  \A i \in 1..Len(ids) :
                model_inputs.slot_mapping[i] =
                    <<(LastBlock(req_ids2blocks[ids[i]]) * BlockSize) + (tkv % BlockSize)>>

\* C13 amended: after a completed decode the slot of every resident request is
\* last_block_id * block_size + (t mod block_size), last_block_id the last
\* entry of its block table after any block appended in this step and t the
\* cursor before its advance for this step, i.e. the position written (code
\* order: allocate, compute the slot, then advance the cursor).
C13_SlotOfWrittenPosition ==
    (pc = "prepared" /\ IsDecodeStep) =>
        LET ids == sorted_requests_ids(input_batch)
        IN  /\ Len(model_inputs.slot_mapping) >= Len(ids)
            /\ \A i \in 1..Len(ids) :
                  model_inputs.slot_mapping[i] =
                      <<(LastBlock(req_ids2blocks[ids[i]]) * BlockSize)
                            + ((tkv - 1) % BlockSize)>>

\* C13 witness: a decode of two requests wrote the last position of a block,
\* so that the cursor after the advance is a block boundary.
C13_Witness ==
    /\ pc = "prepared"
    /\ IsDecodeStep
    /\ Cardinality(DOMAIN input_batch) >= 2
    /\ tkv % BlockSize = 0
    /\ \A i \in 1..Len(model_inputs.slot_mapping) :
          model_inputs.slot_mapping[i][1] % BlockSize = BlockSize - 1

\* number of rows marked active in self.model.indices
ActiveRows(indices) == Cardinality({i \in 1..Len(indices) : indices[i]})

\* C14: after every completed decode the batch has at least 2 rows and as many
\* active rows as resident requests: k >= 2 residents give k rows, all active;
\* 1 resident gives 2 equal rows with the mask [true, false].
C14_MinBatchOfTwo ==
    (pc = "prepared" /\ IsDecodeStep) =>
        LET k == Cardinality(DOMAIN input_batch)
            mi == model_inputs
            rows == Len(mi.input_tokens)
        IN  /\ k >= 1
            /\ rows >= 2
            /\ Len(mi.indices) = rows
            /\ Len(mi.slot_mapping) = rows
            /\ Len(mi.block_table) = rows
            /\ Len(mi.left_padded_prompt_mask) = rows
            /\ Len(mi.current_tkv_mask) = rows
            /\ ActiveRows(mi.indices) = k
            /\ k >= 2 => rows = k /\ \A i \in 1..rows : mi.indices[i]
            /\ k = 1 =>
                /\ rows = 2
                /\ mi.indices = <<TRUE, FALSE>>
                /\ mi.input_tokens[2] = mi.input_tokens[1]
                /\ mi.slot_mapping[2] = mi.slot_mapping[1]
                /\ mi.block_table[2] = mi.block_table[1]
                /\ mi.left_padded_prompt_mask[2] = mi.left_padded_prompt_mask[1]

\* C14 witness: a decode of a single resident request was padded to two rows.
C14_Witness ==
    /\ pc = "prepared"
    /\ IsDecodeStep
    /\ Cardinality(DOMAIN input_batch) = 1
    /\ Len(model_inputs.input_tokens) = 2
    /\ model_inputs.indices = <<TRUE, FALSE>>

\* C15: when a decode batch padded to two rows is about to be sampled, the
\* write-back appends exactly one token, the one sampled for row 0, to the one
\* resident request and changes no other request; the token of the padding row
\* is appended nowhere.
C15_PadRowDiscarded ==
    (pc = "prepared" /\ IsDecodeStep /\ model_inputs.indices = <<TRUE, FALSE>>) =>
        LET ids == sorted_requests_ids(input_batch)
            new == AppendSampled(requests, ids, 1)
        IN  /\ Len(ids) = 1
            /\ Len(new) = Len(requests)
            /\ \A k \in 1..Len(requests) :
                  IF requests[k].req_id = ids[1]
                  THEN new[k] = [requests[k] EXCEPT !.output_token_ids =
                                    Append(@, SampledToken(0))]
                  ELSE new[k] = requests[k]
            /\ Cardinality({k \in 1..Len(requests) : new[k] # requests[k]}) = 1

\* C15 witness: a single resident request is in its second padded decode and
\* holds one token from its prefill and one from the first padded decode.
C15_Witness ==
    /\ pc = "prepared"
    /\ IsDecodeStep
    /\ model_inputs.indices = <<TRUE, FALSE>>
    /\ Len(requests) = 1
    /\ requests[1].output_token_ids = <<SampledToken(0), SampledToken(0)>>

\* C16: whenever update_states is about to run, for every set of finished ids
\* in every iteration order: if it completes, every finished id that was
\* resident is in neither slot table nor request map, has no block table, all
\* the blocks it held are in the pool, and it has no reservation-ledger entry.
C16_FinishedFullyRemoved ==
    pc = "idle" =>
        \A fin \in FinishedOrders(Resident) :
            LET s == update_states(Cur, <<>>, fin)
            IN  s.err = "" =>
                    \A id \in SeqToSet(fin) \cap Resident :
                        /\ id \notin DOMAIN s.input_batch
                        /\ id \notin ReqIdsOf(s.requests)
                        /\ id \notin DOMAIN s.req_ids2blocks
                        /\ id \in DOMAIN req_ids2blocks =>
                              SeqToSet(req_ids2blocks[id]) \subseteq SeqToSet(s.block_pool)
                        /\ id \notin DOMAIN s.req_ids2reserved_blocks

\* the ids update_states can be told are finished although they are not
\* resident: never admitted, or admitted and already removed
NotResident == ReqIds \ (Resident \cup DOMAIN input_batch)

\* C17: whenever update_states is about to run, a finished id that is not
\* resident changes nothing and raises nothing, alone or after the resident
\* ids finished in the same call; and reporting a resident id finished a second
\* time changes nothing more than the first time.
C17_UnknownFinishNoOp ==
    pc = "idle" =>
        /\ \A x \in NotResident :
              /\ update_states(Cur, <<>>, <<x>>) = Cur
              /\ \A r \in Resident :
                    /\ update_states(Cur, <<>>, <<r, x>>) = update_states(Cur, <<>>, <<r>>)
                    /\ update_states(Cur, <<>>, <<x, r>>) = update_states(Cur, <<>>, <<r>>)
        /\ \A r \in Resident :
              LET s1 == update_states(Cur, <<>>, <<r>>)
              IN  s1.err = "" => update_states(s1, <<>>, <<r>>) = s1

\* C17 witness: between two steps a request that was admitted is no longer
\* resident while another request holds blocks; a finish for the former leaves
\* the pool as it is.
C17_Witness ==
    /\ pc = "idle"
    /\ \E x \in NotResident :
          /\ x <= ids_issued
          /\ update_states(Cur, <<>>, <<x>>).block_pool = block_pool
    /\ \E r \in DOMAIN req_ids2blocks : Len(req_ids2blocks[r]) > 0
    /\ Len(block_pool) + HeldCount(req_ids2blocks) = n_blocks

\* C18: a step that reaches the forward pass is a prefill exactly when it
\* lists new requests; a prefill lists exactly one new request and no cached
\* request, a decode lists cached requests only.  A step that lists both was
\* aborted by the assertion of prepare_model_input with nothing composed, and
\* that assertion aborts no other step.
C18_NeverMixed ==
    /\ pc = "prepared" =>
          /\ model_inputs.is_prompt <=> Len(sched.new_reqs) > 0
          /\ model_inputs.is_prompt => Len(sched.new_reqs) = 1 /\ Len(sched.cached) = 0
          /\ ~model_inputs.is_prompt => Len(sched.new_reqs) = 0 /\ Len(sched.cached) > 0
    /\ (Len(sched.new_reqs) > 0 /\ Len(sched.cached) > 0) =>
          /\ pc \in {"updated", "reduced", "aborted"}
          /\ model_inputs = NoModelInputs
          /\ pc = "aborted" => err \in {E_Mixed, E_KeyError}
    /\ (pc = "aborted" /\ err = E_Mixed) =>
          Len(sched.new_reqs) > 0 /\ Len(sched.cached) > 0
    /\ (pc = "aborted" /\ err = E_OneRequest) =>
          Len(sched.new_reqs) > 1 /\ model_inputs = NoModelInputs

\* C18 witness: a step listing a new request together with a resident request
\* was rejected.
C18_Witness ==
    /\ pc = "aborted"
    /\ err = E_Mixed
    /\ \E i \in 1..Len(sched.cached) : sched.cached[i] \in DOMAIN input_batch
    /\ model_inputs = NoModelInputs

\* C19: a step that needs more blocks than the pool holds is aborted.  A decode
\* in which more resident requests lack the block of position tkv than the
\* pool has ids raises, without advancing tkv or building inputs; a prefill
\* that passes the join check and needs more blocks than the pool has raises
\* the pool's IndexError, gives the new request no block table and leaves the
\* tables of the resident requests alone.  In all cases no id appears twice
\* across pool and tables, and a step aborted by that IndexError left the pool
\* empty.
C19_EmptyPoolFatal ==
    /\ (pc = "reduced" /\ IsDecodeStep) =>
          LET s == prepare_decode(Cur, sched.cached)
              short == {r \in DOMAIN input_batch \cap DOMAIN req_ids2blocks :
                           Len(req_ids2blocks[r]) < tkv \div BlockSize + 1}
          IN  /\ Cardinality(short) > Len(block_pool) =>
                    /\ s.err # ""
                    /\ s.tkv = tkv
                    /\ s.model_inputs = NoModelInputs
              /\ s.err = E_PoolEmpty => s.block_pool = <<>>
              /\ \A r \in DOMAIN s.req_ids2blocks :
                    SeqToSet(s.req_ids2blocks[r]) \ SeqToSet(req_ids2blocks[r])
                        \subseteq SeqToSet(block_pool)
              /\ NoDuplicates(s.block_pool \o HeldSeq(s.req_ids2blocks))
    /\ (pc = "reduced" /\ IsPrefillStep) =>
          \A r \in NewRequestData(AdmissibleIds) :
              LET s == prepare_prompt(Cur, <<r>>)
                  L == IF DOMAIN req_ids2blocks = {}
                       THEN -((-r.prompt_len) \div BlockSize)
                       ELSE -((-tkv) \div BlockSize)
              IN  /\ (s.err # E_Join /\ L > Len(block_pool)) =>
                        /\ s.err = E_PoolEmpty
                        /\ r.req_id \notin DOMAIN s.req_ids2blocks
                        /\ s.model_inputs = NoModelInputs
                        /\ \A x \in DOMAIN req_ids2blocks :
                              s.req_ids2blocks[x] = req_ids2blocks[x]
                  /\ NoDuplicates(s.block_pool \o HeldSeq(s.req_ids2blocks))
    /\ (pc = "aborted" /\ err = E_PoolEmpty) =>
          block_pool = <<>> /\ model_inputs = NoModelInputs

\* C19 witness: a decode was aborted because the resident requests hold every
\* block and the position to write starts a new one.
C19_Witness ==
    /\ pc = "aborted"
    /\ err = E_PoolEmpty
    /\ IsDecodeStep
    /\ block_pool = <<>>
    /\ HeldCount(req_ids2blocks) = n_blocks
    /\ tkv = sched.tkv0

\* C20: in every state of a step that has not been aborted, the reservations
\* sum to at most n_blocks, i.e. the reported number of free blocks is not
\* negative: a prefill whose reservation exceeds what is left does not
\* complete.  Stated for the states in which every ledger entry belongs to a
\* request that has a block table, so that it does not rest on entries left
\* behind by finished requests.
C20_ReservationsWithinCapacity ==
    (pc # "aborted" /\ DOMAIN req_ids2reserved_blocks = DOMAIN req_ids2blocks) =>
        get_n_free_blocks(n_blocks, req_ids2reserved_blocks) >= 0

C22_RequestMonotone ==
    [][/\ \A j \in 1..Len(requests') : requests'[j].left_padding >= 0
       /\ \A i \in 1..Len(requests) : \A j \in 1..Len(requests') :
             requests[i].req_id = requests'[j].req_id =>
                 LET old == requests[i]
                     new == requests'[j]
                 IN  /\ Len(new.output_token_ids) >= Len(old.output_token_ids)
                     /\ SubSeq(new.output_token_ids, 1, Len(old.output_token_ids))
                           = old.output_token_ids
                     /\ new.left_padding <= old.left_padding]_vars

\* C22 witness: reclamation has lowered the left padding of a request that
\* holds two output tokens, next to a request added after it.
C22_Witness ==
    /\ pc = "reduced"
    /\ tkv < sched.tkv0
    /\ \E i \in 1..Len(requests) :
          /\ Len(requests[i].output_token_ids) >= 2
          /\ requests[i].left_padding > 0

\* the dense indices of a req id -> slot index map
DenseIndices(ib) == {req_id_to_dense_index(ib, r) : r \in DOMAIN ib}

\* C23: after every sequence of add and remove operations on a slot table the
\* dense indices of the resident requests are exactly 0..active_count-1, no
\* two resident requests have the same dense index or the same slot, and every
\* slot index is below the capacity.
C23_DenseIndicesContiguous ==
    LET ib == slot_table.req_id_to_index
        active_count == Cardinality(DOMAIN ib)
    IN  /\ DenseIndices(ib) = 0..(active_count - 1)
        /\ \A r, q \in DOMAIN ib :
              (req_id_to_dense_index(ib, r) = req_id_to_dense_index(ib, q)
                   \/ ib[r] = ib[q]) => r = q
        /\ \A r \in DOMAIN ib : ib[r] \in 0..(slot_table.max_num_reqs - 1)
        /\ active_count <= slot_table.max_num_reqs

\* C23 witness: a full table in which a request added after a removal took the
\* slot below that of a request added before it.
C23_Witness ==
    LET ib == slot_table.req_id_to_index
    IN  /\ Cardinality(DOMAIN ib) = slot_table.max_num_reqs
        /\ \E x \in 1..ids_issued : x \notin DOMAIN ib
        /\ \E r, q \in DOMAIN ib : r < q /\ ib[q] < ib[r]

\* C24: round trip of the sampling metadata.  After every sequence of adds
\* and removes the metadata has exactly one row per surviving request, the row
\* at a survivor's dense index holds that survivor's own data, no row holds
\* the data of a removed request, and the metadata of a table to which only
\* the survivors were added has the same row for every survivor at its dense
\* index there.
C24_MetadataRoundTrip ==
    LET ib == slot_table.req_id_to_index
        md == make_sampling_metadata(slot_table)
        direct == AddRequests(EmptyBatch(slot_table.max_num_reqs),
                              SetToSortedSeq(DOMAIN ib))
        md_direct == make_sampling_metadata(direct)
    IN  /\ Len(md) = Cardinality(DOMAIN ib)
        /\ \A r \in DOMAIN ib : md[req_id_to_dense_index(ib, r) + 1] = r
        /\ SeqToSet(md) = DOMAIN ib
        /\ Len(md_direct) = Len(md)
        /\ DOMAIN direct.req_id_to_index = DOMAIN ib
        /\ \A r \in DOMAIN ib :
              md_direct[req_id_to_dense_index(direct.req_id_to_index, r) + 1]
                  = md[req_id_to_dense_index(ib, r) + 1]

\* C24 witness: two requests survive, the row of a removed request is still in
\* the arrays below the slot of a survivor.
C24_Witness ==
    LET ib == slot_table.req_id_to_index
    IN  /\ Cardinality(DOMAIN ib) = 2
        /\ \E r \in DOMAIN ib : \E i \in 0..(ib[r] - 1) :
              /\ slot_table.rows[i] # 0
              /\ slot_table.rows[i] \notin DOMAIN ib
        /\ make_sampling_metadata(slot_table) # <<slot_table.rows[0], slot_table.rows[1]>>

\* the slot indices of the requests K of a req id -> slot index map
SlotsOf(ib, K) == {ib[r] : r \in K}

\* C25: slot-table capacity.  The table never holds more than max_num_reqs
\* requests and an add without index fails exactly when it holds max_num_reqs;
\* from a full table, after any k >= 1 requests are removed, k further adds
\* without index all succeed, the new requests get exactly the freed slots,
\* and the sampling metadata has one row for each resident request; the size-1
\* prefill table never holds more than one request.
C25_SlotCapacity ==
    LET ib == slot_table.req_id_to_index
        cap == slot_table.max_num_reqs
        full == Cardinality(DOMAIN ib) = cap
    IN  /\ Cardinality(DOMAIN ib) <= cap
        /\ IB_can_add(ib, cap) <=> ~full
        /\ pc = "aborted" => err = E_Capacity /\ full
        /\ Cardinality(DOMAIN prefill_batch) <= 1
        /\ full =>
              \A K \in (SUBSET DOMAIN ib) \ {{}} :
                  LET k == Cardinality(K)
                      b1 == RemoveRequests(slot_table, SetToSortedSeq(K))
                      new == [j \in 1..k |-> MaxSlotReqs + j]
                      b2 == AddRequests(b1, new)
                  IN  /\ \A j \in 0..(k - 1) :
                            IB_can_add(AddRequests(b1, SubSeq(new, 1, j)).req_id_to_index, cap)
                      /\ DOMAIN b2.req_id_to_index = (DOMAIN ib \ K) \cup SeqToSet(new)
                      /\ SlotsOf(b2.req_id_to_index, SeqToSet(new)) = SlotsOf(ib, K)
                      /\ \A r \in DOMAIN ib \ K : b2.req_id_to_index[r] = ib[r]
                      /\ ~IB_can_add(b2.req_id_to_index, cap)
                      /\ SeqToSet(make_sampling_metadata(b2)) = DOMAIN b2.req_id_to_index
                      /\ Len(make_sampling_metadata(b2)) = cap

\* C25 witness: an add to a full table has failed, after requests were
\* removed and their slots taken again, the last of them by a prefill.
C25_Witness ==
    /\ pc = "aborted"
    /\ err = E_Capacity
    /\ Cardinality(DOMAIN slot_table.req_id_to_index) = slot_table.max_num_reqs
    /\ \E x \in 1..ids_issued : x \notin DOMAIN slot_table.req_id_to_index
    /\ Cardinality(DOMAIN prefill_batch) = 1
    /\ DOMAIN prefill_batch \subseteq DOMAIN slot_table.req_id_to_index

\* the block counts and overrides _set_blocks is tried with
MaxSetBlocks == DefaultNumBlocks + 1
SetBlocksCounts == {1, DefaultNumBlocks - 1, DefaultNumBlocks, MaxSetBlocks}
SetBlocksOverrides == {0, 1, DefaultNumBlocks - 2, MaxSetBlocks}

C27_LifecycleOrder ==
    /\ (pc = "prepared" /\ IsPrefillStep) =>
          /\ NewReqId \in ReqIdsOf(requests) \cap DOMAIN input_batch
          /\ DOMAIN prefill_batch = {NewReqId}
          /\ ReqGet(requests, NewReqId).output_token_ids = <<>>
          /\ Cardinality({i \in 1..Len(requests) : requests[i].req_id = NewReqId}) = 1
    /\ (pc = "prepared" /\ IsDecodeStep) =>
          /\ SeqToSet(sched.cached) = DOMAIN input_batch
          /\ \A id \in SeqToSet(sched.cached) :
                /\ id \in ReqIdsOf(requests) \cap DOMAIN req_ids2blocks
                /\ id \notin sched.freed_reqs
                /\ Len(ReqGet(requests, id).output_token_ids) >= 1
    /\ pc = "idle" =>
          \A x \in ReqIds \ ReqIdsOf(requests) :
              \A cached \in {<<x>>, SetToSortedSeq(ReqIdsOf(requests) \cup {x})} :
                  \A fin \in {<<>>, <<x>>, SetToSortedSeq(ReqIdsOf(requests))} :
                      LET s == update_states(Cur, cached, fin)
                      IN  s.err = E_KeyError /\ s.tkv = tkv /\ s.requests = requests

\* C27 witness: a step that listed as cached a request admitted earlier and no
\* longer resident was aborted by the KeyError, next to a resident request that
\* has decoded.
C27_Witness ==
    /\ pc = "aborted"
    /\ err = E_KeyError
    /\ \E i \in 1..Len(sched.cached) :
          /\ sched.cached[i] <= ids_issued
          /\ sched.cached[i] \notin ReqIdsOf(requests) \cup DOMAIN req_ids2blocks
    /\ \E i \in 1..Len(requests) : Len(requests[i].output_token_ids) >= 2
    /\ tkv = sched.tkv0
    /\ model_inputs = NoModelInputs

\* C28: decode precondition.  Whenever _prepare_decode is about to run: it
\* completes only if the cached list is non-empty and has as many entries as
\* there are resident requests; a list of another length raises the assertion
\* on the batch size and changes nothing; a list that leaves out a resident
\* request raises without advancing tkv; an empty list raises the assertion
\* on its length and changes nothing.  A step aborted by one of the two
\* assertions composed no inputs, and a completed decode listed every
\* resident request.
C28_DecodePrecondition ==
    /\ (pc = "reduced" /\ ~is_prompt(sched.new_reqs)) =>
          LET s == prepare_decode(Cur, sched.cached)
              none == prepare_decode(Cur, <<>>)
          IN  /\ s.err = "" =>
                    /\ Len(sched.cached) > 0
                    /\ Len(sched.cached) = Cardinality(DOMAIN input_batch)
              /\ Len(sched.cached) # Cardinality(DOMAIN input_batch) =>
                    s = [Cur EXCEPT !.err = E_DecodeAll]
              /\ (DOMAIN input_batch \ SeqToSet(sched.cached) # {}) =>
                    s.err # "" /\ s.tkv = tkv
              /\ none = [Cur EXCEPT !.err = E_NoDecode]
    /\ (pc = "aborted" /\ err \in {E_DecodeAll, E_NoDecode}) =>
          /\ Len(sched.new_reqs) = 0
          /\ Len(sched.cached) # Cardinality(DOMAIN input_batch)
          /\ tkv <= sched.tkv0
          /\ model_inputs = NoModelInputs
    /\ (pc = "prepared" /\ ~is_prompt(sched.new_reqs)) =>
          /\ Len(sched.cached) = Cardinality(DOMAIN input_batch)
          /\ Len(sched.cached) > 0

\* C28 witness: a decode that listed one of two resident requests was aborted
\* with the cursor where the step found it.
C28_Witness ==
    /\ pc = "aborted"
    /\ err = E_DecodeAll
    /\ Cardinality(DOMAIN input_batch) = 2
    /\ Len(sched.cached) = 1
    /\ sched.cached[1] \in DOMAIN input_batch
    /\ tkv = sched.tkv0
    /\ tkv > 0

\* C29: prefill slot mapping.  After every completed prefill, with L the
\* number of slots of its slot mapping: L is a multiple of block_size, L >= tkv
\* and L = ceil(tkv / block_size) * block_size; the new request holds exactly
\* L / block_size blocks; slot i (from 0) is
\* blocks[i div block_size] * block_size + (i mod block_size); the L slots are
\* pairwise distinct and none lies in a block held by another request.
C29_PrefillSlotMapping ==
    (pc = "prepared" /\ IsPrefillStep) =>
        LET blocks == req_ids2blocks[NewReqId]
            slots == model_inputs.slot_mapping[1]
            L == Len(slots)
        IN  /\ Len(model_inputs.slot_mapping) = 1
            /\ L % BlockSize = 0
            /\ L >= tkv
            /\ L = -((-tkv) \div BlockSize) * BlockSize
            /\ Len(blocks) * BlockSize = L
            /\ \A i \in 0..(L - 1) :
                  slots[i + 1] = (blocks[i \div BlockSize + 1] * BlockSize)
                                    + (i % BlockSize)
            /\ \A i, j \in 1..L : slots[i] = slots[j] => i = j
            /\ \A r \in DOMAIN req_ids2blocks \ {NewReqId} :
                  \A b \in 1..Len(req_ids2blocks[r]) : \A i \in 1..L :
                      slots[i] \div BlockSize # req_ids2blocks[r][b]

\* C29 witness: a request joined a batch at a cursor inside a block and got
\* two blocks, next to a request that holds blocks.
C29_Witness ==
    /\ pc = "prepared"
    /\ IsPrefillStep
    /\ tkv % BlockSize # 0
    /\ Len(model_inputs.slot_mapping[1]) = 2 * BlockSize
    /\ Len(model_inputs.slot_mapping[1]) > tkv
    /\ \E r \in DOMAIN req_ids2blocks \ {NewReqId} : Len(req_ids2blocks[r]) > 0

\* C30: in every state of a step that has not been aborted (after
\* update_states, reclamation, prefill, decode and sampling), every request
\* with a block table holds exactly ceil(tkv / block_size) blocks; the block
\* tables stacked by a completed decode all have that length, and a request
\* that joined holds as many blocks as the requests already resident.
C30_EqualBlockTables ==
    /\ pc # "aborted" =>
          \A r \in DOMAIN req_ids2blocks :
              Len(req_ids2blocks[r]) = -((-tkv) \div BlockSize)
    /\ (pc = "prepared" /\ IsDecodeStep) =>
          \A i \in 1..Len(model_inputs.block_table) :
              Len(model_inputs.block_table[i]) = -((-tkv) \div BlockSize)

\* C30 witness: between two steps, two requests of which one joined with left
\* padding hold two blocks each, the cursor being inside the second block.
C30_Witness ==
    /\ pc = "idle"
    /\ Len(requests) = 2
    /\ tkv % BlockSize # 0
    /\ \A r \in DOMAIN req_ids2blocks : Len(req_ids2blocks[r]) = 2
    /\ Cardinality(DOMAIN req_ids2blocks) = 2
    /\ \E i \in 1..Len(requests) : requests[i].left_padding > 0

\* C31: under the admission layer's discipline (a request is prefilled only
\* when its reservation is at most the reported n_free_blocks, max_tokens >= 1,
\* no request decodes after it has generated max_tokens tokens) no step is
\* aborted by a pop from an empty deque, and neither the prefill nor the decode
\* that is about to run raises it.
C31_NoAllocationFailure ==
    /\ err # E_PoolEmpty
    /\ (pc = "reduced" /\ ~is_prompt(sched.new_reqs)) =>
          prepare_decode(Cur, sched.cached).err # E_PoolEmpty
    /\ (pc = "reduced" /\ IsPrefillStep) =>
          prepare_prompt(Cur, sched.new_reqs).err # E_PoolEmpty

\* C31 witness: the ledger is full (the reservations add up to n_blocks), and
\* the decode of this step took the last blocks of the pool.
C31_Witness ==
    /\ pc = "prepared"
    /\ IsDecodeStep
    /\ SumValues(req_ids2reserved_blocks) = n_blocks
    /\ Len(block_pool) = 0
    /\ \A r \in DOMAIN req_ids2blocks : NeedsNewBlock(sched.tkv0, Len(req_ids2blocks[r]) - 1)

\* the tokens request r has generated, the one of the decode in flight included
Generated(r) ==
    Len(r.output_token_ids)
      + (IF pc = "prepared" /\ IsDecodeStep /\ r.req_id \in DOMAIN input_batch
         THEN 1 ELSE 0)

\* request r holds at most the blocks the ledger has for it
Covered(blocks, reserved, id) ==
    id \in DOMAIN blocks =>
        (id \in DOMAIN reserved /\ Len(blocks[id]) <= reserved[id])

\* C32: in every state of a step that has not been aborted, every resident
\* request that has generated at most max_tokens tokens holds at most as many
\* blocks as its ledger entry says; reduce_left_padding lowers the blocks held
\* and the ledger entry of every request by the same count; and when every
\* resident request is within max_tokens, n_blocks minus the sum of the
\* reservations is at most the number of ids in the free pool.
C32_ReservationCoversUsage ==
    /\ pc # "aborted" =>
          /\ \A i \in 1..Len(requests) :
                Generated(requests[i]) <= requests[i].max_tokens =>
                    Covered(req_ids2blocks, req_ids2reserved_blocks, requests[i].req_id)
          /\ (\A i \in 1..Len(requests) :
                 Generated(requests[i]) <= requests[i].max_tokens) =>
                get_n_free_blocks(n_blocks, req_ids2reserved_blocks) <= Len(block_pool)
    /\ pc = "updated" =>
          LET s == reduce_left_padding(Cur)
          IN  s.err = "" =>
                \A r \in DOMAIN req_ids2blocks :
                    /\ r \in DOMAIN s.req_ids2blocks
                    /\ r \in DOMAIN req_ids2reserved_blocks
                    /\ r \in DOMAIN s.req_ids2reserved_blocks
                    /\ Len(req_ids2blocks[r]) - Len(s.req_ids2blocks[r])
                         = req_ids2reserved_blocks[r] - s.req_ids2reserved_blocks[r]

\* C32 witness: reclamation took a block and a reservation from a request in
\* this step, the decode that followed gave it a new block, and with the token
\* of this decode the request reaches max_tokens holding exactly the blocks it
\* has reserved.
C32_Witness ==
    /\ pc = "prepared"
    /\ IsDecodeStep
    /\ tkv - 1 < sched.tkv0
    /\ \E i \in 1..Len(requests) :
          LET r == requests[i]
          IN  /\ Generated(r) = r.max_tokens
              /\ r.req_id \in DOMAIN req_ids2blocks
              /\ NeedsNewBlock(tkv - 1, Len(req_ids2blocks[r.req_id]) - 1)
              /\ Len(req_ids2blocks[r.req_id]) = req_ids2reserved_blocks[r.req_id]

\* no step is in progress and no request is resident
Quiescent == pc = "idle" /\ Len(requests) = 0 /\ DOMAIN input_batch = {}

\* C33: quiescence.  Between steps, when no request is resident, the free pool
\* holds all n_blocks ids, the block-table map and the reservation ledger are
\* empty, and the n_free_blocks reported by the step that just returned equals
\* n_blocks, whatever the prompt lengths were (0 included) and also when a
\* request was finished right after its prefill.
C33_Quiescence ==
    Quiescent =>
        /\ SeqToSet(block_pool) = 0..(n_blocks - 1)
        /\ Len(block_pool) = n_blocks
        /\ DOMAIN req_ids2blocks = {}
        /\ DOMAIN req_ids2reserved_blocks = {}
        /\ output.returned => output.n_free_blocks = n_blocks

\* C34: when a decode batch has been composed, with ids the resident request
\* ids in slot order: row i of the batch holds the last output token, the block
\* table and the left padding of request ids[i]; the write-back appends the
\* token sampled for row i to request ids[i] and to no other request, so every
\* resident request gets exactly one token, the one of its own row.
C34_RowRequestConsistency ==
    (pc = "prepared" /\ IsDecodeStep) =>
        LET ids == sorted_requests_ids(input_batch)
            after == AppendSampled(requests, ids, 1)
        IN  /\ SeqToSet(ids) = ReqIdsOf(requests)
            /\ Len(ids) = Len(requests)
            /\ Len(model_inputs.input_tokens) >= Len(ids)
            /\ \A i \in 1..Len(ids) :
                  LET r == ReqGet(requests, ids[i])
                  IN  /\ model_inputs.input_tokens[i] = <<Last(r.output_token_ids)>>
                      /\ model_inputs.block_table[i] = req_ids2blocks[ids[i]]
                      /\ model_inputs.left_padded_prompt_mask[i] = r.left_padding
                      /\ ReqGet(after, ids[i]).output_token_ids
                           = Append(r.output_token_ids, SampledToken(i - 1))
            /\ Len(after) = Len(requests)
            /\ \A k \in 1..Len(requests) :
                  /\ after[k].req_id = requests[k].req_id
                  /\ Len(after[k].output_token_ids)
                       = Len(requests[k].output_token_ids) + 1

\* C34 witness: a decode batch of two requests whose slot order is not the
\* order of their ids nor the order in which they were admitted, with
\* different left paddings.
C34_Witness ==
    /\ pc = "prepared"
    /\ IsDecodeStep
    /\ LET ids == sorted_requests_ids(input_batch)
       IN  /\ Len(ids) = 2
           /\ ids[1] > ids[2]
           /\ requests[1].req_id = ids[2]
           /\ requests[1].left_padding # requests[2].left_padding
           /\ model_inputs.left_padded_prompt_mask[1] = requests[2].left_padding

\* the decode steps request r has taken part in: every token but the one of
\* its prefill, the decode in flight included
DecodeStepsOf(r) ==
    IF Len(r.output_token_ids) = 0 THEN 0 ELSE Generated(r) - 1

\* C35: in every state of a step that has not been aborted, between steps in
\* particular, every resident request r has
\* tkv - left_padding = prompt_len + (decode steps r has taken part in);
\* reduce_left_padding leaves tkv - left_padding of every request unchanged.
C35_CursorPosition ==
    /\ pc # "aborted" =>
          \A i \in 1..Len(requests) :
              tkv - requests[i].left_padding
                  = requests[i].prompt_len + DecodeStepsOf(requests[i])
    /\ pc = "updated" =>
          LET s == reduce_left_padding(Cur)
          IN  s.err = "" =>
                /\ Len(s.requests) = Len(requests)
                /\ \A i \in 1..Len(requests) :
                      s.tkv - s.requests[i].left_padding
                          = tkv - requests[i].left_padding

\* C35 witness: reclamation has just lowered the cursor under a request that
\* has decoded and keeps a left padding, after the request it was aligned
\* with finished.
C35_Witness ==
    /\ pc = "reduced"
    /\ tkv < sched.tkv0
    /\ sched.freed_reqs # {}
    /\ \E i \in 1..Len(requests) :
          /\ Len(requests[i].output_token_ids) >= 2
          /\ requests[i].left_padding > 0
          /\ requests[i].prompt_len > 0

\* C36: when _prepare_prompt is about to run for any new request r and raises
\* the join assertion, it returns the runner as it found it: tkv, the free
\* pool, the block tables, the ledger, the request map, input_batch and
\* prefill_batch are unchanged, and r is not in the request map, the slot table
\* or the block-table map.  In a step aborted by the join assertion the
\* rejected request is not resident.
C36_RejectedJoinChangesNothing ==
    /\ (pc = "reduced" /\ IsPrefillStep) =>
          \A r \in NewRequestData(AdmissibleIds) :
              LET s == prepare_prompt(Cur, <<r>>)
              IN  s.err = E_Join =>
                    /\ s.tkv = tkv
                    /\ s.block_pool = block_pool
                    /\ s.req_ids2blocks = req_ids2blocks
                    /\ s.req_ids2reserved_blocks = req_ids2reserved_blocks
                    /\ s.requests = requests
                    /\ s.input_batch = input_batch
                    /\ s.prefill_batch = prefill_batch
                    /\ s.model_inputs = model_inputs
                    /\ r.req_id \notin ReqIdsOf(s.requests)
                    /\ r.req_id \notin DOMAIN s.input_batch
                    /\ r.req_id \notin DOMAIN s.req_ids2blocks
    /\ (pc = "aborted" /\ err = E_Join) =>
          /\ NewReqId \notin ReqIdsOf(requests)
          /\ NewReqId \notin DOMAIN input_batch
          /\ NewReqId \notin DOMAIN req_ids2blocks
          /\ model_inputs = NoModelInputs

\* C36 witness: a join was rejected in a step whose reclamation had lowered
\* the cursor below the prompt length; the request prefilled before it is still
\* in prefill_batch and the resident request keeps its blocks.
C36_Witness ==
    /\ pc = "aborted"
    /\ err = E_Join
    /\ tkv < sched.tkv0
    /\ sched.new_reqs[1].prompt_len <= sched.tkv0
    /\ DOMAIN prefill_batch # {}
    /\ NewReqId \notin DOMAIN prefill_batch
    /\ Len(block_pool) < n_blocks

\* the block ids held by the requests ids
BlocksOf(blocks, ids) ==
    UNION {SeqToSet(blocks[r]) : r \in ids \cap DOMAIN blocks}

\* C37: when update_states is about to run, for every list of finished ids
\* the scheduler can report and with fin the set of those ids: if it raises
\* nothing, tkv is unchanged; every request not in fin keeps its place in the
\* request map, its state (left padding and output tokens included), its slot,
\* its block table and its ledger entry; the pool is its old content followed
\* by the blocks the finished requests held and by nothing else; for a single
\* finished request the pool's new tail is that request's block table.  After
\* update_states the cursor is the one of step entry.
C37_FinishFrame ==
    /\ (pc = "idle" /\ nsteps < MaxSteps) =>
          \A f \in FinishedOrders(Resident) :
              LET s == update_states(Cur, <<>>, f)
                  fin == SeqToSet(f)
                  tail == Drop(s.block_pool, Len(block_pool))
              IN  s.err = "" =>
                    /\ s.tkv = tkv
                    /\ s.requests = SelectSeq(requests, LAMBDA r : r.req_id \notin fin)
                    /\ \A r \in (DOMAIN input_batch) \ fin :
                          r \in DOMAIN s.input_batch /\ s.input_batch[r] = input_batch[r]
                    /\ \A r \in (DOMAIN req_ids2blocks) \ fin :
                          r \in DOMAIN s.req_ids2blocks
                          /\ s.req_ids2blocks[r] = req_ids2blocks[r]
                    /\ \A r \in (DOMAIN req_ids2reserved_blocks) \ fin :
                          r \in DOMAIN s.req_ids2reserved_blocks
                          /\ s.req_ids2reserved_blocks[r] = req_ids2reserved_blocks[r]
                    /\ Len(s.block_pool) >= Len(block_pool)
                    /\ Take(s.block_pool, Len(block_pool)) = block_pool
                    /\ SeqToSet(tail) = BlocksOf(req_ids2blocks, fin)
                    /\ NoDuplicates(tail)
                    /\ (Len(f) = 1 /\ f[1] \in DOMAIN req_ids2blocks) =>
                          tail = req_ids2blocks[f[1]]
    /\ pc = "updated" => tkv = sched.tkv0

\* C37 witness: update_states has just freed the two blocks of a finished
\* request while another request holds blocks, has decoded and keeps a left
\* padding.
C37_Witness ==
    /\ pc = "updated"
    /\ Cardinality(sched.freed_reqs) = 1
    /\ tkv = sched.tkv0
    /\ Len(block_pool) >= 2
    /\ \E i \in 1..Len(requests) :
          /\ requests[i].req_id \in DOMAIN req_ids2blocks
          /\ Len(req_ids2blocks[requests[i].req_id]) >= 2
          /\ Len(requests[i].output_token_ids) >= 2
          /\ requests[i].left_padding > 0

\* C38: when _prepare_prompt is about to run while requests are resident, for
\* every new request r it can complete for: tkv is unchanged; the request map
\* is the old one with r's state appended; every resident request keeps its
\* slot, its block table and its ledger entry; the blocks of r are the first
\* ids of the old pool, in order, and the pool is the rest of it.
C38_JoinFrame ==
    (pc = "reduced" /\ IsPrefillStep /\ ~is_new_batch(Cur)) =>
        \A r \in NewRequestData(AdmissibleIds) :
            LET s == prepare_prompt(Cur, <<r>>)
            IN  s.err = "" =>
                  /\ s.tkv = tkv
                  /\ Len(s.requests) = Len(requests) + 1
                  /\ Take(s.requests, Len(requests)) = requests
                  /\ Last(s.requests).req_id = r.req_id
                  /\ DOMAIN s.input_batch = DOMAIN input_batch \cup {r.req_id}
                  /\ \A x \in DOMAIN input_batch : s.input_batch[x] = input_batch[x]
                  /\ DOMAIN s.req_ids2blocks = DOMAIN req_ids2blocks \cup {r.req_id}
                  /\ \A x \in DOMAIN req_ids2blocks :
                        s.req_ids2blocks[x] = req_ids2blocks[x]
                  /\ DOMAIN s.req_ids2reserved_blocks
                       = DOMAIN req_ids2reserved_blocks \cup {r.req_id}
                  /\ \A x \in (DOMAIN req_ids2reserved_blocks) \ {r.req_id} :
                        s.req_ids2reserved_blocks[x] = req_ids2reserved_blocks[x]
                  /\ LET n == Len(s.req_ids2blocks[r.req_id])
                     IN  /\ n <= Len(block_pool)
                         /\ s.req_ids2blocks[r.req_id] = Take(block_pool, n)
                         /\ s.block_pool = Drop(block_pool, n)

\* C38 witness: a request joined at a cursor past a block boundary and took
\* three blocks from the head of the pool, next to a request that has decoded,
\* holds three blocks and keeps its left padding.
C38_Witness ==
    /\ pc = "prepared"
    /\ IsPrefillStep
    /\ tkv = sched.tkv0
    /\ Len(req_ids2blocks[NewReqId]) = 3
    /\ \E i \in 1..Len(requests) :
          /\ requests[i].req_id # NewReqId
          /\ Len(requests[i].output_token_ids) >= 2
          /\ requests[i].left_padding > 0
          /\ Len(req_ids2blocks[requests[i].req_id]) = 3

\* a shape that takes the whole list of new requests
Applicable(shape, reqs) ==
    /\ Len(reqs) <= shape.batch_size
    /\ \A i \in 1..Len(reqs) :
          /\ reqs[i].prompt_len <= shape.prompt_length
          /\ reqs[i].max_tokens <= shape.new_tokens

ApplicableIndices(shapes, reqs) ==
    {i \in 1..Len(shapes) : Applicable(shapes[i], reqs)}

\* the configured shapes in every order
ShapeOrders ==
    {[i \in 1..Len(spyre_warmup_shapes) |-> spyre_warmup_shapes[o[i]]] :
        o \in Perms(1..Len(spyre_warmup_shapes))}

StaticPrefillStep == is_prompt(sched.new_reqs) /\ ~MixedStep(sched.new_reqs, sched.cached)

\* C39: for the new requests of a static-batching prefill and the warm-up
\* shapes in any configured order, _get_padded_batch_size fails exactly when no
\* shape has batch_size >= number of new requests, prompt_length >= every
\* prompt length and new_tokens >= every max_tokens, and otherwise returns
\* batch size and prompt length of the first such shape; _prepare_prompt fails
\* with it, and after a completed prefill the batch has as many rows as the
\* chosen batch size, all of the chosen prompt length: the prompts left-padded,
\* then dummy rows.
C39_ShapeSelection ==
    /\ (pc = "updated" /\ StaticPrefillStep) =>
          /\ \A shapes \in ShapeOrders :
                LET sel == get_padded_batch_size(shapes, sched.new_reqs)
                    A == ApplicableIndices(shapes, sched.new_reqs)
                IN  IF A = {} THEN ~sel.ok
                    ELSE /\ sel.ok
                         /\ sel.padded_batch_size = shapes[MinOf(A)].batch_size
                         /\ sel.min_pad_length_batch = shapes[MinOf(A)].prompt_length
          /\ (static_prepare_prompt(StaticCur, sched.new_reqs).err = E_NoShape)
                <=> (ApplicableIndices(spyre_warmup_shapes, sched.new_reqs) = {})
    /\ (pc = "prepared" /\ StaticPrefillStep) =>
          LET A == ApplicableIndices(spyre_warmup_shapes, sched.new_reqs)
              n == Len(sched.new_reqs)
          IN  /\ A # {}
              /\ LET shape == spyre_warmup_shapes[MinOf(A)]
                 IN  /\ Len(model_inputs.input_tokens) = shape.batch_size
                     /\ Len(position_ids) = shape.batch_size
                     /\ \A i \in 1..shape.batch_size :
                           LET row == model_inputs.input_tokens[i]
                           IN  /\ row.pads + row.seq_len = shape.prompt_length
                               /\ row.seq_len = IF i <= n
                                                THEN sched.new_reqs[i].prompt_len
                                                ELSE shape.prompt_length
    /\ (pc = "aborted" /\ err = E_NoShape) =>
          ApplicableIndices(spyre_warmup_shapes, sched.new_reqs) = {}

\* C39 witness: one new request that two shapes can take; the first of them
\* in configured order has batch size 3, so two dummy rows were added.
C39_Witness ==
    /\ pc = "prepared"
    /\ StaticPrefillStep
    /\ Len(sched.new_reqs) = 1
    /\ Cardinality(ApplicableIndices(spyre_warmup_shapes, sched.new_reqs)) = 2
    /\ Len(model_inputs.input_tokens) = 3
    /\ model_inputs.input_tokens[3].pads = 0

NewIds == {sched.new_reqs[i].req_id : i \in 1..Len(sched.new_reqs)}

\* C40: when the static-batching _prepare_prompt completes, the request map
\* holds exactly the new requests of the step, in their order, each with an
\* empty output and left_padding 0, and the slot table holds exactly their
\* ids; no request that was resident before is resident after.
C40_PrefillReplacesBatch ==
    /\ (pc = "updated" /\ StaticPrefillStep) =>
          LET s == static_prepare_prompt(StaticCur, sched.new_reqs)
          IN  s.err = "" =>
                /\ Len(s.requests) = Len(sched.new_reqs)
                /\ DOMAIN s.input_batch = NewIds
                /\ \A i \in 1..Len(s.requests) :
                      /\ s.requests[i].req_id = sched.new_reqs[i].req_id
                      /\ s.requests[i].output_token_ids = <<>>
                      /\ s.requests[i].left_padding = 0
    /\ (pc = "prepared" /\ StaticPrefillStep) =>
          /\ ReqIdsOf(requests) = NewIds
          /\ DOMAIN input_batch = NewIds
          /\ Len(requests) = Len(sched.new_reqs)
          /\ sched.resident0 \cap ReqIdsOf(requests) = {}
          /\ sched.resident0 \cap DOMAIN input_batch = {}
          /\ \A i \in 1..Len(requests) :
                /\ requests[i].output_token_ids = <<>>
                /\ requests[i].left_padding = 0

\* C40 witness: a prefill of two new requests has completed in the third step
\* or later, while a request of an earlier batch was still resident.
C40_Witness ==
    /\ pc = "prepared"
    /\ StaticPrefillStep
    /\ sched.resident0 # {}
    /\ Len(sched.new_reqs) = 2
    /\ nsteps >= 3

====
